---- MODULE Spec2Model ----
(***************************************************************************)
(* A model of ClassicLib's concurrent scan pipeline:                       *)
(*   ScanGameCore.scan_mods_archived   (archive / BA2 scan)                *)
(*   ScanGameCore.scan_mods_unpacked   (loose-file scan)                   *)
(*   ScanGameCore.check_log_errors     (log scan)                          *)
(*                                                                         *)
(* The scans are asyncio coroutines: a task runs atomically from one await *)
(* to the next, so every action below is one such stretch of code.  The    *)
(* scan targets are given run-length encoded: a target "class" stands for  *)
(* mult targets that behave alike, and the tasks of the scan are kept as a *)
(* bag of task records, which lets a scan hold more tasks than the largest *)
(* limiter admits.                                                         *)
(***************************************************************************)
EXTENDS Bags, FiniteSets, Integers, Sequences, TLC

VARIABLES
    input,        \* the settings and the filesystem snapshot the scan is run on
    scan_pc,      \* position of the orchestrating coroutine
    semaphore,    \* _value of the four asyncio.Semaphore objects
    pool,         \* bag of task records: the tasks handed to asyncio.gather
    issue_lists,  \* issue category -> its set of lines, in insertion order
    wave,         \* number of directory batches gathered so far (loose-file scan)
    contributed,  \* history: every (category, line) a task has added to issue_lists
    relocated,    \* the subfolders and files shutil.move has taken out of the mods folder
    tool_calls,   \* history: bag of the calls of create_subprocess_exec
    walked,       \* history: mod_path.walk has been called
    backup_dirs,  \* the folders mkdir has made below the backup folder
    logged,       \* history: the calls of msg_error, msg_warning and logger.warning
    lock_log,     \* history: every write to issue_lists, with the lock held for it
    finish_order, \* history: the log files in the order their tasks ended
    wrapper,      \* what the synchronous wrapper has returned to its caller
    other,        \* a second scan of the same instance: its own variables
    ret           \* what the scan returned: the list of strings that is joined

vars == <<input, scan_pc, semaphore, pool, issue_lists, wave, contributed, relocated,
          tool_calls, walked, backup_dirs, logged, lock_log, finish_order, wrapper, other, ret>>

(***************************************************************************)
(* Program constants                                                       *)
(***************************************************************************)
MAX_CONCURRENT_SUBPROCESSES == 4
MAX_CONCURRENT_FILE_OPS == 10
MAX_CONCURRENT_LOG_READS == 20
MAX_CONCURRENT_DDS_READS == 50
batch_size == 50
DumpPreambleBlocks == 4
ListPreambleLines == 15

(***************************************************************************)
(* Bounds of the model                                                     *)
(***************************************************************************)
\* how many more equal targets than a ceiling admits a crowded input holds
ExtraTasks == 1

Limiters == {"process", "file_ops", "log_read", "dds_read"}

\* the four semaphores, the subprocess one made with the file-operation limit
ScanGameCoreInitWrongLimit ==
    [l \in Limiters |->
        CASE l = "process"  -> MAX_CONCURRENT_FILE_OPS
          [] l = "file_ops" -> MAX_CONCURRENT_FILE_OPS
          [] l = "log_read" -> MAX_CONCURRENT_LOG_READS
          [] l = "dds_read" -> MAX_CONCURRENT_DDS_READS]

\* ScanGameCore.__init__: the four semaphores
ScanGameCoreInit ==
    [l \in Limiters |->
        CASE l = "process"  -> MAX_CONCURRENT_SUBPROCESSES
          [] l = "file_ops" -> MAX_CONCURRENT_FILE_OPS
          [] l = "log_read" -> MAX_CONCURRENT_LOG_READS
          [] l = "dds_read" -> MAX_CONCURRENT_DDS_READS]

(***************************************************************************)
(* Strings, sets of lines, sorted()                                        *)
(***************************************************************************)
Range(s) == {s[i] : i \in DOMAIN s}

\* str.__lt__: lexicographic order; a line is a sequence of character codes
RECURSIVE StrLess(_, _)
StrLess(a, b) ==
    IF a = <<>> THEN b # <<>>
    ELSE IF b = <<>> THEN FALSE
    ELSE IF Head(a) # Head(b) THEN Head(a) < Head(b)
    ELSE StrLess(Tail(a), Tail(b))

\* list.append in place of set.add: a line is added however often it comes
ListAppend(s, x) == Append(s, x)

\* set.add: a line already in the set is not added again
SetAdd(s, x) == IF x \in Range(s) THEN s ELSE Append(s, x)

\* set.update
RECURSIVE SetUpdate(_, _)
SetUpdate(s, items) ==
    IF items = <<>> THEN s ELSE SetUpdate(SetAdd(s, Head(items)), Tail(items))

RECURSIVE InsertSorted(_, _)
InsertSorted(x, s) ==
    IF s = <<>> THEN <<x>>
    ELSE IF StrLess(x, Head(s)) THEN <<x>> \o s
    ELSE <<Head(s)>> \o InsertSorted(x, Tail(s))

\* the items as they come, not sorted
unsorted(items) == items

\* sorted(items)
RECURSIVE sorted(_)
sorted(items) ==
    IF items = <<>> THEN <<>> ELSE InsertSorted(Head(items), sorted(Tail(items)))

(***************************************************************************)
(* Text: a str is the sequence of the codes of its characters              *)
(***************************************************************************)
\* str.lower(): "A".."Z" (65..90) become "a".."z" (97..122)
str_lower(s) == [i \in DOMAIN s |-> IF s[i] \in 65..90 THEN s[i] + 32 ELSE s[i]]

\* "sub in s": sub is a substring of s
str_in(sub, s) ==
    \E i \in 0..(Len(s) - Len(sub)) : \A j \in DOMAIN sub : s[i + j] = sub[j]

\* s.endswith(suffix)
endswith(s, suffix) ==
    /\ Len(suffix) <= Len(s)
    /\ \A j \in DOMAIN suffix : s[Len(s) - Len(suffix) + j] = suffix[j]

\* s.startswith(prefix)
startswith(s, prefix) == Len(prefix) <= Len(s) /\ SubSeq(s, 1, Len(prefix)) = prefix

\* the characters str.split() and str.lstrip() take as whitespace
Whitespace == {9, 10, 11, 12, 13, 32}

\* s.lstrip()
RECURSIVE lstrip(_)
lstrip(s) == IF s # <<>> /\ Head(s) \in Whitespace THEN lstrip(Tail(s)) ELSE s

\* the length of the run without whitespace s begins with
RECURSIVE WordLen(_)
WordLen(s) == IF s = <<>> \/ Head(s) \in Whitespace THEN 0 ELSE 1 + WordLen(Tail(s))

\* s.split(maxsplit=maxsplit): the words between runs of whitespace; after
\* maxsplit words the rest is one piece
RECURSIVE split(_, _)
split(s, maxsplit) ==
    LET t == lstrip(s) IN
    IF t = <<>> THEN <<>>
    ELSE IF maxsplit = 0 THEN <<t>>
    ELSE <<SubSeq(t, 1, WordLen(t))>> \o split(SubSeq(t, WordLen(t) + 1, Len(t)), maxsplit - 1)

\* s.isdecimal() and int(s), for the digits "0".."9" (48..57)
isdecimal(s) == s # <<>> /\ \A i \in DOMAIN s : s[i] \in 48..57

RECURSIVE int(_)
int(s) == IF s = <<>> THEN 0 ELSE 10 * int(SubSeq(s, 1, Len(s) - 1)) + (s[Len(s)] - 48)

(***************************************************************************)
(* Report text                                                             *)
(***************************************************************************)
Item(kind, cat, mode, text) == [kind |-> kind, cat |-> cat, mode |-> mode, text |-> text]

Banner(name) == Item("banner", name, "", <<>>)
Message(name) == Item("message", name, "", <<>>)
Line(cat, text) == Item("line", cat, "", text)

\* the insertion order of the issue_lists dict of each scan
UnpackedOrder == <<"cleanup", "animdata", "tex_dims", "tex_frmt", "snd_frmt", "xse_file", "previs">>
ArchivedOrder == <<"ba2_frmt", "animdata", "tex_dims", "tex_frmt", "snd_frmt", "xse_file", "previs">>

\* the templates without the "cleanup" entry of the unpacked mode
get_issue_messages_without_cleanup(mode) ==
    LET base == {"tex_dims", "tex_frmt", "snd_frmt"}
        own  == IF mode = "unpacked"
                THEN {"xse_file", "previs", "animdata"}
                ELSE {"xse_file", "previs", "animdata", "ba2_frmt"}
    IN [c \in base \cup own |->
            <<Item("template", c, IF c \in base THEN "base" ELSE mode, <<>>)>>]

\* get_issue_messages: issue type -> its template, for one mode
get_issue_messages(mode) ==
    LET base == {"tex_dims", "tex_frmt", "snd_frmt"}
        own  == IF mode = "unpacked"
                THEN {"xse_file", "previs", "animdata", "cleanup"}
                ELSE {"xse_file", "previs", "animdata", "ba2_frmt"}
    IN [c \in base \cup own |->
            <<Item("template", c, IF c \in base THEN "base" ELSE mode, <<>>)>>]

RECURSIVE LineItems(_, _)
LineItems(cat, lines) ==
    IF lines = <<>> THEN <<>>
    ELSE <<Line(cat, Head(lines))>> \o LineItems(cat, Tail(lines))

\* "for issue_type, items in issue_lists.items(): if items and issue_type in
\* issue_messages: extend(template); extend(sorted(items))"
RECURSIVE build_report(_, _, _, _)
build_report(order, lists, issue_messages, message_list) ==
    IF order = <<>> THEN message_list
    ELSE LET c == Head(order) IN
         build_report(Tail(order), lists, issue_messages,
            IF lists[c] # <<>> /\ c \in DOMAIN issue_messages
            THEN message_list \o issue_messages[c] \o LineItems(c, sorted(lists[c]))
            ELSE message_list)

EmptyIssues(order) == [c \in Range(order) |-> <<>>]

(***************************************************************************)
(* Tasks                                                                   *)
(***************************************************************************)
\* a task record: kind is the coroutine it runs, k the target class it was
\* made for (its place in input.targets), n the place of its own subject in
\* that target (a subfolder or a file of a directory; 0: the target itself),
\* held the set of limiters whose slot the task holds, exc whether the task
\* raised, val what it returned
Task(kind, k, n, pc, val) ==
    [kind |-> kind, k |-> k, n |-> n, pc |-> pc, held |-> {}, exc |-> FALSE, val |-> val]

Copies(e, n) == IF n > 0 THEN [x \in {e} |-> n] ELSE EmptyBag

\* one task of the pool takes a step
Step(old, new) == (pool (-) SetToBag({old})) (+) SetToBag({new})

Tasks == BagToSet(pool)

AllDone == \A t \in Tasks : t.pc = "done"

\* check_single_dds nested in the file-operation limiter as well
LimitersOfNested(kind) ==
    CASE kind = "ba2" -> {"process"}
      [] kind \in {"fomod", "file"} -> {"file_ops"}
      [] kind = "dds" -> {"file_ops", "dds_read"}
      [] kind = "log" -> {"log_read"}
      [] OTHER -> {}

\* the limiter each coroutine enters with "async with <semaphore>"
LimitersOf(kind) ==
    CASE kind = "ba2" -> {"process"}
      [] kind \in {"fomod", "file"} -> {"file_ops"}
      [] kind = "dds" -> {"dds_read"}
      [] kind = "log" -> {"log_read"}
      [] OTHER -> {}

\* asyncio.Semaphore.acquire, when it does not have to wait
CanAcquire(S) == \A l \in S : semaphore[l] > 0
Acquire(sem, S) == [l \in Limiters |-> IF l \in S THEN sem[l] - 1 ELSE sem[l]]
Acquired(S) == Acquire(semaphore, S)
\* a limiter that keeps the slot of a task that leaves it
NeverReleased(S) == semaphore

\* asyncio.Semaphore.release
Release(sem, S) == [l \in Limiters |-> IF l \in S THEN sem[l] + 1 ELSE sem[l]]
Released(S) == Release(semaphore, S)

\* acquire() and release() written out without try/finally: an exception
\* skips the release
HeldOnExitNoFinally(held, exc) == IF exc THEN held ELSE {}

\* the slots a task still holds once it has left its "async with" block, by
\* return or by an exception (exc): __aexit__ releases in both cases
HeldOnExit(held, exc) == {}

\* a task ends with outcome r = [exc, val]
Ended(t, r) ==
    [t EXCEPT !.pc = "done", !.held = HeldOnExit(t.held, r.exc), !.exc = r.exc, !.val = r.val]

\* a write of a line to category cat of issue_lists: the lock of issue_locks
\* held for it ("none": no lock) and who writes, a task or the scan itself
\* after its gather
Write(cat, text, lock, by) == [cat |-> cat, text |-> text, lock |-> lock, by |-> by]

\* a call of msg_error, msg_warning or logger.warning (fn) about a target, a
\* subfolder or a file
Log(fn, about) == [fn |-> fn, about |-> about]

\* "if isinstance(result, Exception): msg_error(f"Task failed ...")" over the
\* results of the tasks S
TaskFailed(S) == { Log("msg_error", <<"Task failed", t.kind, t.k, t.n>>) : t \in { u \in S : u.exc } }

\* asyncio.gather(*tasks) without return_exceptions: the exception of a task
\* is raised where the gather is awaited
gather_raises_task_exception(S) == \E t \in S : t.exc

\* "await asyncio.gather(*tasks, return_exceptions=True)" over the ended tasks
\* S: whether the await raises in the coroutine that waits. It does not: the
\* exceptions come back as results
gather_raises(S) == FALSE

(***************************************************************************)
(* Two scans of one ScanGameCore                                           *)
(***************************************************************************)
\* semaphores made at the start of each call, as local variables
local_semaphore(of_instance, of_call) == of_call

\* the semaphores a scan works with: they are attributes of the instance,
\* made once in __init__, so a scan that gets to run works with the ones the
\* other scan has worked with, and a scan that waits keeps none of its own
self_semaphore(of_instance, of_call) == of_instance

\* Two coroutines of the same instance run in one event loop: the loop
\* gives control to the one or the other at every await. The variables of
\* the scan that runs are those of the model; those of the scan that waits
\* are kept in 'other', with the settings it has read. The files, the log
\* and the instance are shared.
SwitchScan ==
    /\ other' = [input |-> input, scan_pc |-> scan_pc, pool |-> pool, issue_lists |-> issue_lists,
                 wave |-> wave, contributed |-> contributed, lock_log |-> lock_log,
                 finish_order |-> finish_order, walked |-> walked, ret |-> ret,
                 semaphore |-> self_semaphore(other.semaphore, semaphore)]
    /\ input' = other.input
    /\ scan_pc' = other.scan_pc
    /\ pool' = other.pool
    /\ issue_lists' = other.issue_lists
    /\ wave' = other.wave
    /\ contributed' = other.contributed
    /\ lock_log' = other.lock_log
    /\ finish_order' = other.finish_order
    /\ walked' = other.walked
    /\ ret' = other.ret
    /\ semaphore' = self_semaphore(semaphore, other.semaphore)
    /\ UNCHANGED <<wrapper, tool_calls, backup_dirs, relocated, logged>>

(***************************************************************************)
(* The synchronous wrappers: run_async                                     *)
(***************************************************************************)
\* the coroutine of the scan runs: it is awaited, or driven by
\* run_until_complete, or it is a task of the running loop, which runs it
\* once the code that called the wrapper has given up control
CoroutineStarted == input.caller = "in_loop" => wrapper = "Task"

\* run_async where get_running_loop() raises RuntimeError:
\* "return loop.run_until_complete(coro)" returns when the scan has returned
RunAsyncUntilComplete ==
    /\ input.caller = "no_loop"
    /\ wrapper = "pending"
    /\ scan_pc = "returned"
    /\ wrapper' = "result"
    /\ UNCHANGED <<input, other, finish_order, tool_calls, walked, backup_dirs, relocated, semaphore,
                   pool, issue_lists, contributed, lock_log, logged, wave, scan_pc, ret>>

\* run_async where a loop is running: "else: return
\* asyncio.create_task(coro)", the task is made and handed back at once
RunAsyncCreateTask ==
    /\ input.caller = "in_loop"
    /\ wrapper = "pending"
    /\ wrapper' = "Task"
    /\ UNCHANGED <<input, other, finish_order, tool_calls, walked, backup_dirs, relocated, semaphore,
                   pool, issue_lists, contributed, lock_log, logged, wave, scan_pc, ret>>

(***************************************************************************)
(* Archive scan: scan_mods_archived and its process_single_ba2 tasks       *)
(***************************************************************************)
\* An archive class: mult archives named filename (in different folders) with
\* the same header and the same answer of BSArch.exe:
\*   open   : "ok", or "OSError" when the archive cannot be opened or read
\*   header : the bytes f.read(12) returns, at most 12
\*   proc   : how the call of the tool ends: "spawn_error" (create_subprocess_exec
\*            raises OSError or ValueError; the event loops of the standard
\*            library raise ValueError for text=True), "timeout", "nonzero"
\*            (exit code) or "ok"
\*   stdout : the tool's output as stdout.split("\n\n") (-dump) or
\*            stdout.split("\n") (-list) cuts it: blocks or lines, each with
\*            its text (a block: its lines)
\*   wf     : the archive is below the folder "Workshop Framework"
\*   parent : str(file_path.parent)
Archive(mult, filename, header, proc, stdout, wf) ==
    [mult |-> mult, filename |-> filename, open |-> "ok", header |-> header, proc |-> proc,
     stdout |-> stdout, wf |-> wf,
     parent |-> IF wf THEN <<77, 92, 87, 111, 114, 107, 115, 104, 111, 112, 32, 70, 114, 97, 109, 101, 119, 111, 114, 107>>      \* "M\Workshop Framework"
                ELSE <<77, 92, 79, 116, 104, 101, 114>>]      \* "M\Other"

\* b"BTDX", b"DX10" and b"GNRL"
BTDX == <<66, 84, 68, 88>>
DX10 == <<68, 88, 49, 48>>
GNRL == <<71, 78, 82, 76>>

\* the slices header[:n] and header[n:] of a bytes object
Upto(header, n) == SubSeq(header, 1, IF n < Len(header) THEN n ELSE Len(header))
From(header, n) == SubSeq(header, n + 1, Len(header))

\* the header check with "and" in place of "or"
ba2_frmt_mismatch_and(header) ==
    Upto(header, 4) # BTDX /\ From(header, 8) \notin {DX10, GNRL}

\* header[:4] != b"BTDX" or header[8:] not in {b"DX10", b"GNRL"}
ba2_frmt_mismatch(header) ==
    Upto(header, 4) # BTDX \/ From(header, 8) \notin {DX10, GNRL}

\* the branch taken inside the limiter: header[8:] == b"DX10", else GNRL
subcommand(header) == IF From(header, 8) = DX10 THEN "-dump" ELSE "-list"

\* the texts the parsing looks for
Ext_dds == <<69, 120, 116, 58, 32, 100, 100, 115>>      \* "Ext: dds"
Error_ == <<69, 114, 114, 111, 114, 58>>      \* "Error:"
dot_mp3 == <<46, 109, 112, 51>>      \* ".mp3"
dot_m4a == <<46, 109, 52, 97>>      \* ".m4a"
dot_uvd == <<46, 117, 118, 100>>      \* ".uvd"
oc_nif == <<95, 111, 99, 46, 110, 105, 102>>      \* "_oc.nif"
animationfiledata == <<97, 110, 105, 109, 97, 116, 105, 111, 110, 102, 105, 108, 101, 100, 97, 116, 97>>      \* "animationfiledata"
scripts_ == <<115, 99, 114, 105, 112, 116, 115, 92>>      \* "scripts\"
workshop_framework == <<119, 111, 114, 107, 115, 104, 111, 112, 32, 102, 114, 97, 109, 101, 119, 111, 114, 107>>      \* "workshop framework"

\* the keys of xse_scriptfiles, the script files of the script extender
xse_scriptfiles == << <<71, 97, 109, 101, 46, 112, 101, 120>> >>      \* "Game.pex"

\* a path of the inputs: the number n between two texts
PathOf(before, n, after) == before \o <<48 + n>> \o after

\* the text of a block or line of the tool's output that the inputs call kind
EntryText(kind, n) ==
    CASE kind = "preamble_block" ->      \* blocks that would match, were they read
            IF n % 2 = 0 THEN << <<97, 46, 112, 110, 103>>, <<32, 69, 120, 116, 58, 32, 112, 110, 103>> >>      \* "a.png", " Ext: png"
            ELSE << <<97, 46, 100, 100, 115>>, <<32, 69, 120, 116, 58, 32, 100, 100, 115>>, <<32, 87, 58, 32, 51, 32, 72, 58, 32, 51, 32, 70, 58, 32, 49>> >>      \* "a.dds", " Ext: dds", " W: 3 H: 3 F: 1"
      [] kind = "empty" -> <<>>
      [] kind = "error" -> << <<69, 114, 114, 111, 114, 58, 32, 120>> >>      \* "Error: x"
      [] kind = "one_line" -> << PathOf(<<116, 92>>, n, <<46, 112, 110, 103>>) >>      \* "t\<n>.png"
      [] kind = "not_dds" ->      \* "t\<n>.png", " Ext: png", " W: 101 H: 200 F: 1"
            << PathOf(<<116, 92>>, n, <<46, 112, 110, 103>>), <<32, 69, 120, 116, 58, 32, 112, 110, 103>>,
               <<32, 87, 58, 32, 49, 48, 49, 32, 72, 58, 32, 50, 48, 48, 32, 70, 58, 32, 49>> >>
      [] kind = "few_tokens" ->      \* "t\<n>.dds", " Ext: dds", " W: 3"
            << PathOf(<<116, 92>>, n, <<46, 100, 100, 115>>), <<32, 69, 120, 116, 58, 32, 100, 100, 115>>, <<32, 87, 58, 32, 51>> >>
      [] kind = "odd" ->      \* "t\<n>.dds", " Ext: dds", " W: 101 H: 200 F: 1"
            << PathOf(<<116, 92>>, n, <<46, 100, 100, 115>>), <<32, 69, 120, 116, 58, 32, 100, 100, 115>>,
               <<32, 87, 58, 32, 49, 48, 49, 32, 72, 58, 32, 50, 48, 48, 32, 70, 58, 32, 49>> >>
      [] kind = "even" ->      \* ..., " W: 100 H: 200 F: 1", " more"
            << PathOf(<<116, 92>>, n, <<46, 100, 100, 115>>), <<32, 69, 120, 116, 58, 32, 100, 100, 115>>,
               <<32, 87, 58, 32, 49, 48, 48, 32, 72, 58, 32, 50, 48, 48, 32, 70, 58, 32, 49>>, <<32, 109, 111, 114, 101>> >>
      [] kind = "odd_height" ->      \* ..., "W: 100  H: 201 F"
            << PathOf(<<116, 92>>, n, <<46, 100, 100, 115>>), <<32, 69, 120, 116, 58, 32, 100, 100, 115>>,
               <<87, 58, 32, 49, 48, 48, 32, 32, 72, 58, 32, 50, 48, 49, 32, 70>> >>
      [] kind = "not_decimal" ->      \* ..., " W: N/A H: 200 F"
            << PathOf(<<116, 92>>, n, <<46, 100, 100, 115>>), <<32, 69, 120, 116, 58, 32, 100, 100, 115>>,
               <<32, 87, 58, 32, 78, 47, 65, 32, 72, 58, 32, 50, 48, 48, 32, 70>> >>
      [] kind = "upper_ext" ->      \* "t\<n>.DDS", " Ext: DDS", " W: 100 H: 200 F: 1"
            << PathOf(<<116, 92>>, n, <<46, 68, 68, 83>>), <<32, 69, 120, 116, 58, 32, 68, 68, 83>>,
               <<32, 87, 58, 32, 49, 48, 48, 32, 72, 58, 32, 50, 48, 48, 32, 70, 58, 32, 49>> >>
      [] kind = "preamble_line" ->      \* lines that would match, were they read
            CASE n % 4 = 0 -> <<70, 105, 108, 101, 115, 58, 32, 97, 46, 77, 80, 51>>      \* "Files: a.MP3"
              [] n % 4 = 1 -> <<65, 110, 105, 109, 97, 116, 105, 111, 110, 70, 105, 108, 101, 68, 97, 116, 97>>      \* "AnimationFileData"
              [] n % 4 = 2 -> <<83, 99, 114, 105, 112, 116, 115, 92, 71, 97, 109, 101, 46, 112, 101, 120>>      \* "Scripts\Game.pex"
              [] OTHER -> <<97, 46, 117, 118, 100>>      \* "a.uvd"
      [] kind = "mp3" -> PathOf(<<83, 92>>, n, <<46, 77, 80, 51>>)      \* "S\<n>.MP3"
      [] kind = "m4a" -> PathOf(<<115, 92>>, n, <<46, 109, 52, 97>>)      \* "s\<n>.m4a"
      [] kind = "animationfiledata" ->      \* "M\AnimationFileData\<n>.txt"
            PathOf(<<77, 92, 65, 110, 105, 109, 97, 116, 105, 111, 110, 70, 105, 108, 101, 68, 97, 116, 97, 92>>, n, <<46, 116, 120, 116>>)
      [] kind = "anim_mp3" ->      \* "AnimationFileData\<n>.mp3"
            PathOf(<<65, 110, 105, 109, 97, 116, 105, 111, 110, 70, 105, 108, 101, 68, 97, 116, 97, 92>>, n, <<46, 109, 112, 51>>)
      [] kind = "anim_xse" ->      \* "AnimationFileData\<n>\Scripts\Game.pex"
            PathOf(<<65, 110, 105, 109, 97, 116, 105, 111, 110, 70, 105, 108, 101, 68, 97, 116, 97, 92>>, n, <<92, 83, 99, 114, 105, 112, 116, 115, 92, 71, 97, 109, 101, 46, 112, 101, 120>>)
      [] kind = "xse_uvd" ->      \* "<n>\Scripts\Game.pex.uvd"
            PathOf(<<>>, n, <<92, 83, 99, 114, 105, 112, 116, 115, 92, 71, 97, 109, 101, 46, 112, 101, 120, 46, 117, 118, 100>>)
      [] kind = "xse_script" ->      \* "<n>\Scripts\Game.pex"
            PathOf(<<>>, n, <<92, 83, 99, 114, 105, 112, 116, 115, 92, 71, 97, 109, 101, 46, 112, 101, 120>>)
      [] kind = "uvd" -> PathOf(<<118, 92>>, n, <<46, 117, 118, 100>>)      \* "v\<n>.uvd"
      [] kind = "oc_nif" -> PathOf(<<109, 92>>, n, <<95, 79, 67, 46, 78, 73, 70>>)      \* "m\<n>_OC.NIF"
      [] OTHER -> PathOf(<<120, 92>>, n, <<46, 110, 105, 102>>)      \* "x\<n>.nif"

\* a block of the -dump output or a line of the -list output: the name the
\* inputs give it and its text
Entry(kind, name) == [kind |-> kind, name |-> name, text |-> EntryText(kind, name)]

\* "issues[cat] = {text}" in place of "issues[cat].add(text)"
AddIssueOverwrite(issues, cat, text) == [issues EXCEPT ![cat] = <<text>>]

\* issues[cat].add(text)
AddIssue(issues, cat, text) == [issues EXCEPT ![cat] = SetAdd(@, text)]

\* the loop over output_split[4:] of a -dump output; raised names the exception
\* that ended it
RECURSIVE DumpLoop(_, _, _)
DumpLoop(blocks, filename, local_issues) ==
    IF blocks = <<>> THEN [issues |-> local_issues, raised |-> "none"]
    ELSE LET block_split == Head(blocks).text IN
         IF block_split = <<>>                      \* "if not file_block: continue"
         THEN DumpLoop(Tail(blocks), filename, local_issues)
         ELSE IF Len(block_split) < 2               \* block_split[1]
         THEN [issues |-> local_issues, raised |-> "IndexError"]
         ELSE IF ~str_in(Ext_dds, block_split[2])
         THEN DumpLoop(Tail(blocks), filename,
                       AddIssue(local_issues, "tex_frmt", <<filename>> \o block_split[1]))
         ELSE IF Len(block_split) < 3               \* block_split[2]
         THEN [issues |-> local_issues, raised |-> "IndexError"]
         ELSE LET tokens == split(block_split[3], 4) IN
              IF Len(tokens) # 5                    \* "_, width, _, height, _ = ..."
              THEN [issues |-> local_issues, raised |-> "ValueError"]
              ELSE LET width == tokens[2]
                       height == tokens[4]
                   IN IF \/ isdecimal(width) /\ int(width) % 2 # 0
                         \/ isdecimal(height) /\ int(height) % 2 # 0
                      THEN DumpLoop(Tail(blocks), filename,
                                    AddIssue(local_issues, "tex_dims",
                                             <<filename>> \o width \o <<120>> \o height
                                             \o <<32>> \o block_split[1]))
                      ELSE DumpLoop(Tail(blocks), filename, local_issues)

\* the chain without the test of the archive's folder
ListCategoryAnyParent(file, flags, parent) ==
    IF endswith(file, dot_mp3) \/ endswith(file, dot_m4a) THEN "snd_frmt"
    ELSE IF "animdata" \notin flags /\ str_in(animationfiledata, file) THEN "animdata"
    ELSE IF /\ "xse_file" \notin flags
            /\ \E n \in DOMAIN xse_scriptfiles :
                  str_in(scripts_ \o str_lower(xse_scriptfiles[n]), file)
    THEN "xse_file"
    ELSE IF "previs" \notin flags /\ (endswith(file, dot_uvd) \/ endswith(file, oc_nif))
    THEN "previs"
    ELSE "none"

\* the branch of the if/elif chain a line of output_split[15:] takes: the
\* category it adds a line to, or "none"
ListCategory(file, flags, parent) ==
    IF endswith(file, dot_mp3) \/ endswith(file, dot_m4a) THEN "snd_frmt"
    ELSE IF "animdata" \notin flags /\ str_in(animationfiledata, file) THEN "animdata"
    ELSE IF /\ "xse_file" \notin flags
            /\ \E n \in DOMAIN xse_scriptfiles :
                  str_in(scripts_ \o str_lower(xse_scriptfiles[n]), file)
            /\ ~str_in(workshop_framework, str_lower(parent))
    THEN "xse_file"
    ELSE IF "previs" \notin flags /\ (endswith(file, dot_uvd) \/ endswith(file, oc_nif))
    THEN "previs"
    ELSE "none"

\* the loop over output_split[15:] of a -list output, the lines in lower case
RECURSIVE ListLoop(_, _, _, _, _)
ListLoop(lines, filename, parent, flags, local_issues) ==
    IF lines = <<>> THEN local_issues
    ELSE LET file == Head(lines)
             cat == ListCategory(file, flags, parent)
         IN CASE cat = "snd_frmt" ->
                   ListLoop(Tail(lines), filename, parent, flags,
                            AddIssue(local_issues, "snd_frmt", <<filename>> \o file))
              [] cat = "none" ->
                   ListLoop(Tail(lines), filename, parent, flags, local_issues)
              [] OTHER ->
                   ListLoop(Tail(lines), filename, parent, flags \cup {cat},
                            AddIssue(local_issues, cat, <<filename>>))

\* "stdout.lower().split("\n")"
lower_split(stdout) == [i \in DOMAIN stdout |-> str_lower(stdout[i].text)]

\* "output_split[-1].startswith("Error:")"
ends_with_error(output_split) ==
    /\ output_split # <<>>
    /\ LET last == output_split[Len(output_split)].text IN
       last # <<>> /\ startswith(last[1], Error_)

Skip(s, n) == SubSeq(s, n + 1, Len(s))

\* process_single_ba2 up to the header check: the result of an archive that
\* never reaches the tool
Ba2HeaderResult(a) ==
    IF a.open = "OSError"
    THEN [exc |-> FALSE, val |-> EmptyIssues(ArchivedOrder)]
    ELSE [exc |-> FALSE,
          val |-> AddIssue(EmptyIssues(ArchivedOrder), "ba2_frmt", <<a.filename>> \o a.header)]

\* the output written before the timeout is parsed as well
Ba2ToolResultOfPartialOutput(a) ==
    LET empty == EmptyIssues(ArchivedOrder) IN
    IF a.proc \notin {"ok", "timeout"}
    THEN [exc |-> FALSE, val |-> empty]
    ELSE IF subcommand(a.header) = "-dump"
    THEN LET r == DumpLoop(Skip(a.stdout, DumpPreambleBlocks), a.filename, empty)
         IN [exc |-> r.raised = "IndexError", val |-> r.issues]
    ELSE [exc |-> FALSE,
          val |-> ListLoop(Skip(lower_split(a.stdout), ListPreambleLines), a.filename, a.parent, {},
                          empty)]

\* process_single_ba2 inside "async with self.process_semaphore": what the
\* task returns (val) or that it raised (exc)
Ba2ToolResult(a) ==
    LET empty == EmptyIssues(ArchivedOrder) IN
    IF a.proc # "ok"
    THEN [exc |-> FALSE, val |-> empty]
    ELSE IF subcommand(a.header) = "-dump"
    THEN IF ends_with_error(a.stdout)
         THEN [exc |-> FALSE, val |-> empty]
         ELSE LET r == DumpLoop(Skip(a.stdout, DumpPreambleBlocks), a.filename, empty)
              IN [exc |-> r.raised = "IndexError", val |-> r.issues]
    ELSE [exc |-> FALSE,
          val |-> ListLoop(Skip(lower_split(a.stdout), ListPreambleLines), a.filename, a.parent, {},
                          empty)]

\* the messages process_single_ba2 logs for archive a: a header that cannot be
\* read, a timeout, a nonzero exit code, a final block "Error:", an exception
\* of the call or (ValueError) of the parsing
Ba2Messages(a) ==
    IF a.open = "OSError" THEN {Log("msg_warning", <<"Failed to read file", a.filename>>)}
    ELSE IF ba2_frmt_mismatch(a.header) THEN {}
    ELSE CASE a.proc = "timeout" -> {Log("msg_error", <<"timed out", a.filename>>)}
           [] a.proc = "nonzero" -> {Log("msg_error", <<"command failed", a.filename>>)}
           [] a.proc = "spawn_error" -> {Log("msg_error", <<"Error processing", a.filename>>)}
           [] OTHER ->
                IF subcommand(a.header) = "-list" THEN {}
                ELSE IF ends_with_error(a.stdout)
                THEN {Log("msg_error", <<"BSArch error", a.filename>>)}
                ELSE IF DumpLoop(Skip(a.stdout, DumpPreambleBlocks), a.filename,
                                 EmptyIssues(ArchivedOrder)).raised = "ValueError"
                THEN {Log("msg_error", <<"Error processing", a.filename>>)}
                ELSE {}

\* asyncio.create_subprocess_exec(bsarch_path, file_path, "-dump" or "-list",
\* ..., text=True) for an archive of class k by a task that holds the slots
\* held: the call as the history tool_calls records it; started tells whether
\* a process of the tool came to run
create_subprocess_exec(k, held) ==
    [k |-> k, subcommand |-> subcommand(input.targets[k].header), held |-> held,
     started |-> input.targets[k].proc # "spawn_error"]

\* a second coroutine made for every archive
RECURSIVE Ba2TasksTwice(_, _)
Ba2TasksTwice(targets, k) ==
    IF k = 0 THEN EmptyBag
    ELSE Ba2TasksTwice(targets, k - 1) (+)
         Copies(Task("ba2", k, 0, "header", EmptyIssues(ArchivedOrder)),
                2 * targets[k].mult)

\* the tasks asyncio.gather is given: one per archive, not yet run
RECURSIVE Ba2Tasks(_, _)
Ba2Tasks(targets, k) ==
    IF k = 0 THEN EmptyBag
    ELSE Ba2Tasks(targets, k - 1) (+)
         Copies(Task("ba2", k, 0, "header", EmptyIssues(ArchivedOrder)),
                targets[k].mult)

\* the result of the tasks of class k, as gather returns it
ResultOf(k) == CHOOSE t \in Tasks : t.k = k /\ t.n = 0

\* the merge with "break" in place of "continue": it stops at the first
\* result that is an exception
RECURSIVE MergeResultsBreak(_, _, _)
MergeResultsBreak(k, m, lists) ==
    IF k > Len(input.targets) THEN lists
    ELSE IF m > input.targets[k].mult THEN MergeResultsBreak(k + 1, 1, lists)
    ELSE IF ResultOf(k).exc THEN lists
    ELSE MergeResultsBreak(k, m + 1,
            [c \in DOMAIN lists |-> SetUpdate(lists[c], ResultOf(k).val[c])])

\* "for result in results: if isinstance(result, Exception): continue;
\*  for issue_type, items in result.items(): issue_lists[issue_type].update(items)"
RECURSIVE MergeResults(_, _, _)
MergeResults(k, m, lists) ==
    IF k > Len(input.targets) THEN lists
    ELSE IF m > input.targets[k].mult THEN MergeResults(k + 1, 1, lists)
    ELSE MergeResults(k, m + 1,
            IF ResultOf(k).exc THEN lists
            ELSE [c \in DOMAIN lists |-> SetUpdate(lists[c], ResultOf(k).val[c])])

\* the checks of scan_mods_archived with the executable looked for first
scan_mods_archived_checks_bsarch_first(settings) ==
    IF ~settings.bsarch_exists THEN "Mods_BSArch_Missing"
    ELSE IF settings.mod_path = "unset" THEN "Mods_Path_Missing"
    ELSE IF settings.mod_path = "missing" THEN "Mods_Path_Invalid"
    ELSE "none"

\* "if not mod_path: ... if not mod_path.exists(): ... if not
\* bsarch_path.exists(): ...": the warning the scan returns, or "none"
scan_mods_archived_checks(settings) ==
    IF settings.mod_path = "unset" THEN "Mods_Path_Missing"
    ELSE IF settings.mod_path = "missing" THEN "Mods_Path_Invalid"
    ELSE IF ~settings.bsarch_exists THEN "Mods_BSArch_Missing"
    ELSE "none"

\* scan_mods_archived up to "await asyncio.gather(*tasks)"
ScanModsArchivedBegin ==
    /\ input.op = "archived"
    /\ scan_pc = "start"
    /\ CoroutineStarted
    /\ LET warn == scan_mods_archived_checks(input) IN
       IF warn # "none"
       THEN /\ ret' = <<Message(warn)>>
            /\ scan_pc' = "returned"
            /\ UNCHANGED <<pool, walked, logged>>
       ELSE /\ walked' = TRUE
            /\ IF ~input.walk_ok
               THEN /\ ret' = <<Message("Error: Could not scan for BA2 files")>>
                    /\ scan_pc' = "returned"
                    /\ logged' = {Log("msg_error", <<"Error scanning for BA2 files">>)}
                    /\ UNCHANGED pool
               ELSE /\ pool' = Ba2Tasks(input.targets, Len(input.targets))
                    /\ scan_pc' = "gather"
                    /\ UNCHANGED <<ret, logged>>
    /\ UNCHANGED <<input, other, wrapper, finish_order, tool_calls, backup_dirs, relocated, semaphore, issue_lists, contributed, lock_log, wave>>

\* process_single_ba2: the header is read and checked
Ba2ReadHeader ==
    /\ input.op = "archived"
    /\ \E t \in Tasks :
        /\ t.pc = "header"
        /\ LET a == input.targets[t.k] IN
           IF a.open = "OSError" \/ ba2_frmt_mismatch(a.header)
           THEN /\ pool' = Step(t, Ended(t, Ba2HeaderResult(a)))
                /\ logged' = logged \cup Ba2Messages(a)
           ELSE /\ pool' = Step(t, [t EXCEPT !.pc = "acquire"])
                /\ UNCHANGED logged
    /\ UNCHANGED <<input, other, wrapper, finish_order, tool_calls, walked, backup_dirs, relocated, scan_pc, semaphore, issue_lists, contributed, lock_log, wave, ret>>

\* process_single_ba2: "async with self.process_semaphore" is entered and the
\* tool is started
Ba2Acquire ==
    /\ input.op = "archived"
    /\ \E t \in Tasks :
        /\ t.pc = "acquire"
        /\ CanAcquire(LimitersOf(t.kind))
        /\ semaphore' = Acquired(LimitersOf(t.kind))
        /\ pool' = Step(t, [t EXCEPT !.pc = "communicate", !.held = LimitersOf(t.kind)])
        /\ tool_calls' = tool_calls (+) SetToBag({create_subprocess_exec(t.k, LimitersOf(t.kind))})
    /\ UNCHANGED <<input, other, wrapper, finish_order, logged, walked, backup_dirs, relocated, scan_pc, issue_lists, contributed, lock_log, wave, ret>>

\* process_single_ba2: the tool has answered, timed out or failed to start;
\* its output is parsed, the slot is released and the task ends
Ba2Communicate ==
    /\ input.op = "archived"
    /\ \E t \in Tasks :
        /\ t.pc = "communicate"
        /\ LET new == Ended(t, Ba2ToolResult(input.targets[t.k])) IN
           /\ pool' = Step(t, new)
           /\ semaphore' = Released(t.held \ new.held)
           /\ logged' = logged \cup Ba2Messages(input.targets[t.k])
    /\ UNCHANGED <<input, other, wrapper, finish_order, tool_calls, walked, backup_dirs, relocated, scan_pc, issue_lists, contributed, lock_log, wave, ret>>

\* scan_mods_archived after gather: the results are merged and the report built
ScanModsArchivedFinish ==
    /\ input.op = "archived"
    /\ scan_pc = "gather"
    /\ AllDone
    /\ IF gather_raises(Tasks)
       THEN /\ scan_pc' = "raised"
            /\ UNCHANGED <<issue_lists, ret, logged, lock_log>>
       ELSE LET merged == MergeResults(1, 1, issue_lists) IN
            /\ logged' = logged \cup TaskFailed(Tasks)
            /\ issue_lists' = merged
            /\ lock_log' = lock_log \cup
                  UNION { { Write(c, x, "none", "scan_mods_archived") : x \in Range(merged[c]) } :
                            c \in DOMAIN merged }
            /\ ret' = build_report(ArchivedOrder, merged, get_issue_messages("archived"),
                                   <<Banner("RESULTS FROM ARCHIVED / BA2 FILES")>>)
            /\ scan_pc' = "returned"
    /\ UNCHANGED <<input, other, wrapper, finish_order, tool_calls, walked, backup_dirs, relocated, semaphore, pool, wave, contributed>>


(***************************************************************************)
(* Log scan: check_log_errors and its process_single_log tasks             *)
(***************************************************************************)
\* the folder handed to check_log_errors, as str(folder_path) gives it
folder_path == <<67, 114, 97, 115, 104, 45, 76>>      \* "Crash-L"

\* the names of the entries of the folder, by the kind of name
LogName(name) ==
    CASE name = "log" -> <<97, 46, 108, 111, 103>>      \* "a.log"
      [] name = "crash" -> <<67, 114, 97, 115, 104, 45, 49, 46, 108, 111, 103>>      \* "Crash-1.log"
      [] name = "excluded" -> <<79, 76, 68, 46, 108, 111, 103>>      \* "OLD.log"
      [] name = "upper_ext" -> <<66, 46, 76, 79, 71>>      \* "B.LOG"
      [] name = "txt" -> <<108, 111, 103, 46, 116, 120, 116>>      \* "log.txt"

\* A log class: mult entries of the folder that behave alike:
\*   name  : the kind of name: "log" (a plain log file), "crash" (a crash
\*           log), "excluded" (a name with the fragment the settings may
\*           exclude), "upper_ext" (the extension in capitals), "txt"
\*   file  : the name of the entry, file.name
\*   read  : "ok", "OSError" or "UnicodeError"
\*   lines : the lines of the file as readlines() gives them, each a str
LogFile(mult, path, name, read, lines) ==
    [mult |-> mult, path |-> path, name |-> name, file |-> LogName(name),
     read |-> read, lines |-> lines]

\* str(file) of an entry of the folder
str_file(f) == folder_path \o <<92>> \o f.file

\* ClassicLib.Util.normalize_list: the patterns of the settings, lower-cased
normalize_list(items) == [i \in DOMAIN items |-> str_lower(items[i])]

\* 'normalize_list(yaml_settings(list[str], YAML.Main, "...") or [])'
catch_errors == normalize_list(input.catch_log_errors)
ignore_errors == normalize_list(input.exclude_log_errors)
ignore_files == normalize_list(input.exclude_log_files)

\* the line compared as it is, not lower-cased
line_is_error_case_sensitive(line, catch, ignore) ==
    /\ \E n \in DOMAIN catch : str_in(catch[n], line)
    /\ \A n \in DOMAIN ignore : ~str_in(ignore[n], line)

\* "any(error in line.lower() for error in catch_errors) and
\*  all(ignore not in line.lower() for ignore in ignore_errors)"
line_is_error(line, catch, ignore) ==
    LET lowered == str_lower(line) IN
    /\ \E n \in DOMAIN catch : str_in(catch[n], lowered)
    /\ \A n \in DOMAIN ignore : ~str_in(ignore[n], lowered)

dot_log == <<46, 108, 111, 103>>      \* ".log"
crash_ == <<99, 114, 97, 115, 104, 45>>      \* "crash-"

\* 'folder_path.glob("*.log")': the entries whose name matches the pattern;
\* pathlib compares as the platform's paths compare, without regard to case
\* on Windows (os_name "nt") and with regard to it elsewhere
glob_log(f) ==
    endswith(IF input.os_name = "nt" THEN str_lower(f.file) ELSE f.file, dot_log)

\* the filter with the name compared as it is, not lower-cased
IsValidLogNameAsWritten(f) ==
    /\ glob_log(f)
    /\ ~str_in(crash_, f.file)
    /\ ~\E n \in DOMAIN ignore_files : str_in(ignore_files[n], str_lower(str_file(f)))

\* the filter of valid_log_files:
\* '"crash-" not in file.name.lower() and
\*  not any(part in str(file).lower() for part in ignore_files)'
IsValidLog(f) ==
    /\ glob_log(f)
    /\ ~str_in(crash_, str_lower(f.file))
    /\ ~\E n \in DOMAIN ignore_files : str_in(ignore_files[n], str_lower(str_file(f)))

\* detected_errors: "ERROR > {line}" for the lines with a catch pattern and no
\* ignore pattern
RECURSIVE detected_errors(_, _)
detected_errors(path, lines) ==
    IF lines = <<>> THEN <<>>
    ELSE (IF line_is_error(Head(lines), catch_errors, ignore_errors)
          THEN <<Item("log_error", "ERROR > ", "", <<path, Head(lines)>>)>>
          ELSE <<>>) \o detected_errors(path, Tail(lines))

\* the report whose footer counts every line of the block
format_error_report_counting_block(path, errors) ==
    <<Item("log_caution", "CAUTION", "", <<>>),
      Item("log_caution", "Errors do not necessarily mean", "", <<>>),
      Item("log_path", "LOG PATH > ", "", <<path>>)>>
    \o errors
    \o <<Item("log_total", "TOTAL NUMBER OF DETECTED LOG ERRORS", "", <<Len(errors) + 4>>)>>

\* format_error_report: two lines of notice, "LOG PATH > {file_path}", the
\* errors, "* TOTAL NUMBER OF DETECTED LOG ERRORS * : {len(errors)}"
format_error_report(path, errors) ==
    <<Item("log_caution", "CAUTION", "", <<>>),
      Item("log_caution", "Errors do not necessarily mean", "", <<>>),
      Item("log_path", "LOG PATH > ", "", <<path>>)>>
    \o errors
    \o <<Item("log_total", "TOTAL NUMBER OF DETECTED LOG ERRORS", "", <<Len(errors)>>)>>

\* process_single_log, "except OSError": logger.warning names the file
LogMessages(f) ==
    IF f.read = "OSError" THEN {Log("logger.warning", <<"UNABLE TO SCAN", f.path>>)} ELSE {}

\* process_single_log without "except OSError": the error leaves the task
LogResultUncaught(f) ==
    CASE f.read \in {"OSError", "UnicodeError"} ->
            [exc |-> TRUE, val |-> <<>>]
      [] OTHER ->
            LET errors == detected_errors(f.path, f.lines) IN
            [exc |-> FALSE,
             val |-> IF errors # <<>> THEN format_error_report(f.path, errors) ELSE <<>>]

\* process_single_log: what the task returns, or that it raised
LogResult(f) ==
    CASE f.read = "OSError" ->
            [exc |-> FALSE,
             val |-> <<Item("log_unreadable", "Unable to scan this log file", "", <<f.path>>)>>]
      [] f.read = "UnicodeError" ->
            [exc |-> TRUE, val |-> <<>>]
      [] OTHER ->
            LET errors == detected_errors(f.path, f.lines) IN
            [exc |-> FALSE,
             val |-> IF errors # <<>> THEN format_error_report(f.path, errors) ELSE <<>>]

RECURSIVE LogTasks(_, _)
LogTasks(targets, k) ==
    IF k = 0 THEN EmptyBag
    ELSE LogTasks(targets, k - 1) (+)
         (IF IsValidLog(targets[k])
          THEN Copies(Task("log", k, 0, "acquire", <<>>), targets[k].mult)
          ELSE EmptyBag)

RECURSIVE Repeat(_, _)
Repeat(s, n) == IF n = 0 THEN <<>> ELSE s \o Repeat(s, n - 1)

\* "for result in results: if isinstance(result, Exception): continue;
\*  error_report.extend(result)"
\* the results taken in the order the tasks ended, as from
\* asyncio.as_completed
RECURSIVE CollectReportsAsCompleted(_, _)
CollectReportsAsCompleted(k, error_report) ==
    IF k > Len(finish_order) THEN error_report
    ELSE LET j == finish_order[k] IN
         CollectReportsAsCompleted(k + 1,
            IF ResultOf(j).exc THEN error_report
            ELSE error_report \o Repeat(ResultOf(j).val, input.targets[j].mult))

RECURSIVE CollectReports(_, _)
CollectReports(k, error_report) ==
    IF k > Len(input.targets) THEN error_report
    ELSE CollectReports(k + 1,
            IF ~IsValidLog(input.targets[k]) \/ ResultOf(k).exc THEN error_report
            ELSE error_report \o Repeat(ResultOf(k).val, input.targets[k].mult))

\* check_log_errors up to "await asyncio.gather(*tasks)"
CheckLogErrorsBegin ==
    /\ input.op = "log"
    /\ scan_pc = "start"
    /\ CoroutineStarted
    /\ pool' = LogTasks(input.targets, Len(input.targets))
    /\ scan_pc' = "gather"
    /\ UNCHANGED <<input, other, wrapper, finish_order, logged, tool_calls, walked, backup_dirs, relocated, semaphore, issue_lists, contributed, lock_log, wave, ret>>

\* process_single_log: "async with self.log_read_semaphore" is entered and the
\* read is started
LogAcquire ==
    /\ input.op = "log"
    /\ \E t \in Tasks :
        /\ t.pc = "acquire"
        /\ CanAcquire(LimitersOf(t.kind))
        /\ semaphore' = Acquired(LimitersOf(t.kind))
        /\ pool' = Step(t, [t EXCEPT !.pc = "read", !.held = LimitersOf(t.kind)])
    /\ UNCHANGED <<input, other, wrapper, finish_order, logged, tool_calls, walked, backup_dirs, relocated, scan_pc, issue_lists, contributed, lock_log, wave, ret>>

\* process_single_log: the read has ended; the lines are filtered, the slot is
\* released and the task ends
LogRead ==
    /\ input.op = "log"
    /\ \E t \in Tasks :
        /\ t.pc = "read"
        /\ LET new == Ended(t, LogResult(input.targets[t.k])) IN
           /\ pool' = Step(t, new)
           /\ semaphore' = Released(t.held \ new.held)
           /\ logged' = logged \cup LogMessages(input.targets[t.k])
           /\ finish_order' = IF t.k \in Range(finish_order) THEN finish_order
                               ELSE Append(finish_order, t.k)
    /\ UNCHANGED <<input, other, wrapper, tool_calls, walked, backup_dirs, relocated, scan_pc, issue_lists, contributed, lock_log, wave, ret>>

\* check_log_errors after gather: the reports are put together in task order
CheckLogErrorsFinish ==
    /\ input.op = "log"
    /\ scan_pc = "gather"
    /\ AllDone
    /\ IF gather_raises(Tasks)
       THEN scan_pc' = "raised" /\ UNCHANGED <<ret, logged>>
       ELSE /\ ret' = CollectReports(1, <<>>)
            /\ scan_pc' = "returned"
            /\ logged' = logged \cup TaskFailed(Tasks)
    /\ UNCHANGED <<input, other, wrapper, finish_order, tool_calls, walked, backup_dirs, relocated, semaphore, pool, issue_lists, contributed, lock_log, wave>>

(***************************************************************************)
(* Loose-file scan: scan_mods_unpacked, its process_directory tasks and    *)
(* their _move_fomod_async, _move_file_async, _check_dds_batch_async and   *)
(* check_single_dds tasks                                                  *)
(***************************************************************************)
\* A directory class: mult entries (root, dirs, files) of the walk that behave
\* alike:
\*   rel       : the directory's path below the mods folder
\*   root_main : the parent of that path, which the per-directory lines show
\*   wf        : the directory's path contains "workshop framework"
\*   dirs      : its subfolders, files: its files (file classes)
\*   within    : <<p, j>> when the directory is the subfolder j of the walk's
\*               entry p (which the walk, bottom-up, lists after it), else <<>>
\* Only a directory of mult 1 has subfolders or files that start a task.
Dir(mult, rel, root_main, wf, dirs, files) ==
    [mult |-> mult, rel |-> rel, root_main |-> root_main, wf |-> wf,
     dirs |-> dirs, files |-> files, within |-> <<>>]

\* a subfolder: its name, lower-cased ("animationfiledata", "fomod", "other"),
\* and how moving it ends ("ok", "PermissionError", "OSError")
Subdir(name, lower, move) == [name |-> name, lower |-> lower, move |-> move]

\* a file class: mult files of one directory that behave alike:
\*   ext        : the lower-cased suffix
\*   doc_name   : the name contains readme, changes, changelog or change log
\*   bodyslide  : a component of the path is "BodySlide"
\*   xse_script : the name is one of the script extender's, below Scripts\
\*   oc_nif     : the name ends in _oc.nif
\*   move       : how moving the file ends ("ok", "PermissionError", "OSError")
\*   dds        : what opening and reading the file gives: read is "ok" or
\*                "OSError", data the bytes of the file (its first bytes)
File(mult, name, ext) ==
    [mult |-> mult, name |-> name, ext |-> ext, doc_name |-> FALSE, bodyslide |-> FALSE,
     xse_script |-> FALSE, oc_nif |-> FALSE, move |-> "ok", dds |-> [read |-> "ok", data |-> <<>>]]

Add(cat, text) == [cat |-> cat, text |-> text]

\* "async with issue_locks[cat]: issue_lists[cat].add(text)", for a list of adds
RECURSIVE ApplyAdds(_, _)
ApplyAdds(lists, adds) ==
    IF adds = <<>> THEN lists
    ELSE ApplyAdds(AddIssue(lists, Head(adds).cat, Head(adds).text), Tail(adds))

\* every line added under the lock of "cleanup"
async_with_cleanup_lock(cat) == "cleanup"

\* "async with issue_locks[cat]:" around "issue_lists[cat].add(...)": the lock
\* that is held while a line is added to category cat
async_with(cat) == cat

\* a task adds lines to the shared issue_lists
Contribute(adds) ==
    /\ issue_lists' = ApplyAdds(issue_lists, adds)
    /\ contributed' = contributed \cup Range(adds)
    /\ lock_log' = lock_log \cup
          { Write(a.cat, a.text, async_with(a.cat), "task") : a \in Range(adds) }

\* process_directory, "for dirname in dirs": the lines added and the subfolders
\* a _move_fomod_async task is made for
RECURSIVE DirLoop(_, _, _, _)
DirLoop(d, j, has_anim_data, acc) ==
    IF j > Len(d.dirs) THEN acc
    ELSE LET dirname_lower == d.dirs[j].lower IN
         IF ~has_anim_data /\ dirname_lower = "animationfiledata"
         THEN DirLoop(d, j + 1, TRUE,
                      [acc EXCEPT !.adds = Append(@, Add("animdata", <<d.root_main>>))])
         ELSE IF dirname_lower = "fomod"
         THEN DirLoop(d, j + 1, has_anim_data, [acc EXCEPT !.dir_tasks = Append(@, j)])
         ELSE DirLoop(d, j + 1, has_anim_data, acc)

\* the flag of a single detection never looked at
not_has_ignored(flags, flag) == TRUE

\* "not has_xse_files and ..." / "not has_previs_files and ...": the flag of
\* the detection has not been set by an earlier file of the directory
not_has(flags, flag) == flag \notin flags

\* nothing classified any more once a single detection has been made
FileCategoryUntilDetection(d, f, flags) ==
    IF flags # {} THEN "none"
    ELSE IF f.ext = "txt" /\ f.doc_name THEN "move"
    ELSE IF f.ext = "dds" THEN "dds"
    ELSE IF f.ext \in {"tga", "png"} /\ ~f.bodyslide THEN "tex_frmt"
    ELSE IF f.ext \in {"mp3", "m4a"} THEN "snd_frmt"
    ELSE IF f.xse_script /\ ~d.wf THEN "xse"
    ELSE IF f.ext = "uvd" \/ f.oc_nif THEN "previs"
    ELSE "none"

\* process_directory, the if/elif chain of "for filename in files": the branch
\* file f of directory d takes, or "none"
FileCategory(d, f, flags) ==
    IF f.ext = "txt" /\ f.doc_name THEN "move"
    ELSE IF f.ext = "dds" THEN "dds"
    ELSE IF f.ext \in {"tga", "png"} /\ ~f.bodyslide THEN "tex_frmt"
    ELSE IF f.ext \in {"mp3", "m4a"} THEN "snd_frmt"
    ELSE IF not_has(flags, "xse") /\ f.xse_script /\ ~d.wf THEN "xse"
    ELSE IF not_has(flags, "previs") /\ (f.ext = "uvd" \/ f.oc_nif) THEN "previs"
    ELSE "none"

\* process_directory, "for filename in files": the lines added, the files a
\* _move_file_async task is made for, and the files queued in dds_files
RECURSIVE FileLoop(_, _, _, _)
FileLoop(d, i, flags, acc) ==
    IF i > Len(d.files) THEN acc
    ELSE LET f == d.files[i]
             branch == FileCategory(d, f, flags)
         IN CASE branch = "move" ->
                   FileLoop(d, i + 1, flags, [acc EXCEPT !.file_tasks = Append(@, i)])
              [] branch = "dds" ->
                   FileLoop(d, i + 1, flags, [acc EXCEPT !.dds_files = Append(@, i)])
              [] branch \in {"tex_frmt", "snd_frmt"} ->
                   FileLoop(d, i + 1, flags,
                            [acc EXCEPT !.adds = Append(@, Add(branch, <<d.rel, f.name>>))])
              [] branch = "xse" ->
                   FileLoop(d, i + 1, flags \cup {"xse"},
                            [acc EXCEPT !.adds = Append(@, Add("xse_file", <<d.root_main>>))])
              [] branch = "previs" ->
                   FileLoop(d, i + 1, flags \cup {"previs"},
                            [acc EXCEPT !.adds = Append(@, Add("previs", <<d.root_main>>))])
              [] OTHER -> FileLoop(d, i + 1, flags, acc)

dir_loop(d) == DirLoop(d, 1, FALSE, [adds |-> <<>>, dir_tasks |-> <<>>])
file_loop(d) == FileLoop(d, 1, {}, [adds |-> <<>>, file_tasks |-> <<>>, dds_files |-> <<>>])

\* the tasks "await asyncio.gather(*dir_tasks)" starts for directory k
RECURSIVE FomodTasks(_, _)
FomodTasks(k, js) ==
    IF js = <<>> THEN EmptyBag
    ELSE SetToBag({Task("fomod", k, Head(js), "acquire", <<>>)}) (+) FomodTasks(k, Tail(js))

\* the _move_file_async tasks of "await asyncio.gather(*file_tasks)"
RECURSIVE MoveFileTasks(_, _)
MoveFileTasks(k, is) ==
    IF is = <<>> THEN EmptyBag
    ELSE Copies(Task("file", k, Head(is), "acquire", <<>>), input.targets[k].files[Head(is)].mult)
         (+) MoveFileTasks(k, Tail(is))

\* the check_single_dds tasks _check_dds_batch_async gathers
RECURSIVE DdsTasks(_, _)
DdsTasks(k, is) ==
    IF is = <<>> THEN EmptyBag
    ELSE Copies(Task("dds", k, Head(is), "acquire", <<>>), input.targets[k].files[Head(is)].mult)
         (+) DdsTasks(k, Tail(is))

\* the tasks directory k waits for, of the given kinds
Children(k, kinds) == { c \in Tasks : c.k = k /\ c.kind \in kinds }

\* process_directory from "for filename in files" to its end or to
\* "await asyncio.gather(*file_tasks)", for the directory task t that has made
\* the adds before in the same stretch
FilePhase(t, before) ==
    LET d == input.targets[t.k]
        r == file_loop(d)
        batch == IF r.dds_files # <<>>
                 THEN SetToBag({Task("batch", t.k, 0, "ready", <<>>)}) ELSE EmptyBag
        file_tasks == MoveFileTasks(t.k, r.file_tasks) (+) batch
    IN /\ Contribute(before \o r.adds)
       /\ IF file_tasks # EmptyBag
          THEN pool' = Step(t, [t EXCEPT !.pc = "file_tasks"]) (+) file_tasks
          ELSE pool' = Step(t, Ended(t, [exc |-> FALSE, val |-> <<>>]))

\* the slice tasks[i:], without its upper end
BatchSliceToEnd(b, len) ==
    { p \in 1..len : b * batch_size < p }

\* the slice tasks[i : i + batch_size + 1], one task too long
BatchSliceOneMore(b, len) ==
    { p \in 1..len : b * batch_size < p /\ p <= (b + 1) * batch_size + 1 }

\* the slice tasks[i : i + batch_size] as places in the task list, where i is
\* the (b+1)-th value of range(0, len(tasks), batch_size)
BatchSlice(b, len) ==
    { p \in 1..len : b * batch_size < p /\ p <= (b + 1) * batch_size }

RECURSIVE Offset(_, _)
Offset(targets, k) == IF k <= 1 THEN 0 ELSE Offset(targets, k - 1) + targets[k - 1].mult

NumTargets(targets) == Offset(targets, Len(targets) + 1)

\* the process_directory coroutines of class k among the places ps
InSlice(targets, k, ps) ==
    Cardinality({ p \in ps : Offset(targets, k) < p /\ p <= Offset(targets, k) + targets[k].mult })

\* the tasks "await asyncio.gather(*batch)" starts for the b-th batch
RECURSIVE BatchTasks(_, _, _)
BatchTasks(targets, b, k) ==
    IF k = 0 THEN EmptyBag
    ELSE BatchTasks(targets, b, k - 1) (+)
         Copies(Task("dir", k, 0, "ready", <<>>),
                InSlice(targets, k, BatchSlice(b, NumTargets(targets))))

\* the process_directory tasks scan_mods_unpacked has gathered so far
DirectoryTasks == { t \in Tasks : t.kind = "dir" }

DirTasksDone == \A t \in DirectoryTasks : t.pc = "done"

unpacked_report(lists) ==
    build_report(UnpackedOrder, lists, get_issue_messages("unpacked"),
                 <<Banner("MOD FILES SCAN"), Banner("RESULTS FROM UNPACKED / LOOSE FILES")>>)

\* the switch taken as off whatever its value
TEST_MODE_ignored(test_mode) == TRUE

\* "if not TEST_MODE:" before every mkdir and every shutil.move
not_TEST_MODE(test_mode) == ~test_mode

\* "if not mod_path: ...": the warning the scan returns, or "none"
scan_mods_unpacked_checks(settings) ==
    IF settings.mod_path = "unset" THEN "Mods_Path_Missing" ELSE "none"

\* scan_mods_unpacked up to the first "await asyncio.gather(*batch)"; the
\* backup folder is made before the mods path is looked at
ScanModsUnpackedBegin ==
    /\ input.op = "unpacked"
    /\ scan_pc = "start"
    /\ CoroutineStarted
    /\ backup_dirs' = IF not_TEST_MODE(input.TEST_MODE)
                      THEN backup_dirs \cup {<<"backup_path">>} ELSE backup_dirs
    /\ LET warn == scan_mods_unpacked_checks(input) IN
       IF warn # "none"
       THEN /\ ret' = <<Message(warn)>>
            /\ scan_pc' = "returned"
            /\ UNCHANGED <<pool, wave, walked, logged>>
       ELSE /\ walked' = TRUE
            /\ IF ~input.walk_ok
               THEN /\ ret' = <<Message("Error: Could not access mod files")>>
                    /\ scan_pc' = "returned"
                    /\ logged' = {Log("msg_error", <<"Error accessing mod files">>)}
                    /\ UNCHANGED <<pool, wave>>
               ELSE IF NumTargets(input.targets) = 0
               THEN /\ ret' = unpacked_report(issue_lists)
                    /\ scan_pc' = "returned"
                    /\ UNCHANGED <<pool, wave, logged>>
               ELSE /\ pool' = BatchTasks(input.targets, 0, Len(input.targets))
                    /\ wave' = 1
                    /\ scan_pc' = "gather"
                    /\ UNCHANGED <<ret, logged>>
    /\ UNCHANGED <<input, other, wrapper, finish_order, tool_calls, relocated, semaphore, issue_lists, contributed, lock_log>>

\* process_directory from its start to its first await (or to its end)
ProcessDirectoryStart ==
    /\ input.op = "unpacked"
    /\ \E t \in Tasks :
        /\ t.kind = "dir" /\ t.pc = "ready"
        /\ LET d == input.targets[t.k]
               r == dir_loop(d)
           IN IF r.dir_tasks # <<>>
              THEN /\ Contribute(r.adds)
                   /\ pool' = Step(t, [t EXCEPT !.pc = "dir_tasks"]) (+) FomodTasks(t.k, r.dir_tasks)
              ELSE FilePhase(t, r.adds)
    /\ UNCHANGED <<input, other, wrapper, finish_order, logged, tool_calls, walked, backup_dirs, relocated, scan_pc, semaphore, wave, ret>>

\* process_directory: gather(*dir_tasks) has returned
ProcessDirectoryFiles ==
    /\ input.op = "unpacked"
    /\ \E t \in Tasks :
        /\ t.kind = "dir" /\ t.pc = "dir_tasks"
        /\ \A c \in Children(t.k, {"fomod"}) : c.pc = "done"
        /\ IF gather_raises(Children(t.k, {"fomod"}))
           THEN /\ pool' = Step(t, Ended(t, [exc |-> TRUE, val |-> <<>>]))
                /\ UNCHANGED <<issue_lists, contributed, lock_log>>
           ELSE FilePhase(t, <<>>)
    /\ UNCHANGED <<input, other, wrapper, finish_order, logged, tool_calls, walked, backup_dirs, relocated, scan_pc, semaphore, wave, ret>>

\* process_directory: gather(*file_tasks) has returned
ProcessDirectoryEnd ==
    /\ input.op = "unpacked"
    /\ \E t \in Tasks :
        /\ t.kind = "dir" /\ t.pc = "file_tasks"
        /\ \A c \in Children(t.k, {"file", "batch"}) : c.pc = "done"
        /\ pool' = Step(t, Ended(t, [exc |-> gather_raises(Children(t.k, {"file", "batch"})),
                                     val |-> <<>>]))
    /\ UNCHANGED <<input, other, wrapper, finish_order, logged, tool_calls, walked, backup_dirs, relocated, scan_pc, semaphore, issue_lists, contributed, lock_log, wave, ret>>

\* the subject of a move task: the subfolder or the file class
Subject(t) ==
    IF t.kind = "fomod" THEN input.targets[t.k].dirs[t.n] ELSE input.targets[t.k].files[t.n]

cleanup_line(t) == Add("cleanup", <<input.targets[t.k].rel, Subject(t).name>>)

\* directory k is still where the walk found it: no _move_fomod_async task has
\* moved it away as the subfolder of its parent
Present(k) == <<"fomod">> \o input.targets[k].within \notin relocated

\* shutil.move of the subject of t succeeds: a source that is gone with its
\* directory gives FileNotFoundError
MoveSucceeds(t) == Present(t.k) /\ Subject(t).move = "ok"

\* the cleanup line recorded although the move has failed
move_lines_despite_failure(t, moved) == <<cleanup_line(t)>>

\* _move_fomod_async / _move_file_async after shutil.move: "return" in both
\* except clauses, else the line "  - {relative_path}" is added to cleanup
move_lines(t, moved) == IF moved THEN <<cleanup_line(t)>> ELSE <<>>

\* _move_fomod_async / _move_file_async, "except PermissionError" and
\* "except (OSError, FileNotFoundError, FileExistsError)": msg_error names the
\* folder or the file
MoveMessages(t, moved) ==
    IF moved THEN {}
    ELSE {Log("msg_error", <<IF Present(t.k) /\ Subject(t).move = "PermissionError"
                             THEN "Permission denied moving" ELSE "Failed to move",
                             t.kind, t.k, t.n>>)}

\* _move_fomod_async / _move_file_async: "async with self.file_ops_semaphore" is
\* entered; in TEST_MODE nothing is awaited and the task runs to its end,
\* else _move_file_async makes the parent folder in the backup (mkdir)
MoveAcquire ==
    /\ input.op = "unpacked"
    /\ \E t \in Tasks :
        /\ t.kind \in {"fomod", "file"} /\ t.pc = "acquire"
        /\ CanAcquire(LimitersOf(t.kind))
        /\ IF ~not_TEST_MODE(input.TEST_MODE)
           THEN LET in == [t EXCEPT !.held = LimitersOf(t.kind)]
                    new == Ended(in, [exc |-> FALSE, val |-> <<>>])
                IN /\ Contribute(<<cleanup_line(t)>>)
                   /\ pool' = Step(t, new)
                   /\ semaphore' = Release(Acquired(in.held), in.held \ new.held)
                   /\ UNCHANGED backup_dirs
           ELSE /\ semaphore' = Acquired(LimitersOf(t.kind))
                /\ pool' = Step(t, [t EXCEPT !.pc = "move", !.held = LimitersOf(t.kind)])
                /\ backup_dirs' = IF t.kind = "file"
                                  THEN backup_dirs \cup {<<"parent", t.k>>} ELSE backup_dirs
                /\ UNCHANGED <<issue_lists, contributed, lock_log>>
    /\ UNCHANGED <<input, other, wrapper, finish_order, logged, tool_calls, walked, relocated, scan_pc, wave, ret>>

\* _move_fomod_async / _move_file_async: shutil.move has ended; the line is
\* added unless it failed, the slot is released and the task ends
MoveDone ==
    /\ input.op = "unpacked"
    /\ \E t \in Tasks :
        /\ t.kind \in {"fomod", "file"} /\ t.pc = "move"
        /\ LET new == Ended(t, [exc |-> FALSE, val |-> <<>>]) IN
           /\ Contribute(move_lines(t, MoveSucceeds(t)))
           /\ logged' = logged \cup MoveMessages(t, MoveSucceeds(t))
           /\ relocated' = IF MoveSucceeds(t)
                           THEN relocated \cup {<<t.kind, t.k, t.n>>} ELSE relocated
           /\ pool' = Step(t, new)
           /\ semaphore' = Released(t.held \ new.held)
    /\ UNCHANGED <<input, other, wrapper, finish_order, tool_calls, walked, backup_dirs, scan_pc, wave, ret>>

\* _check_dds_batch_async up to "await asyncio.gather(*tasks)"
DdsBatchStart ==
    /\ input.op = "unpacked"
    /\ \E t \in Tasks :
        /\ t.kind = "batch" /\ t.pc = "ready"
        /\ pool' = Step(t, [t EXCEPT !.pc = "gather"])
                   (+) DdsTasks(t.k, file_loop(input.targets[t.k]).dds_files)
    /\ UNCHANGED <<input, other, wrapper, finish_order, logged, tool_calls, walked, backup_dirs, relocated, scan_pc, semaphore, issue_lists, contributed, lock_log, wave, ret>>

\* check_single_dds: "async with self.dds_read_semaphore" is entered and the
\* read is started
DdsAcquire ==
    /\ input.op = "unpacked"
    /\ \E t \in Tasks :
        /\ t.kind = "dds" /\ t.pc = "acquire"
        /\ CanAcquire(LimitersOf(t.kind))
        /\ semaphore' = Acquired(LimitersOf(t.kind))
        /\ pool' = Step(t, [t EXCEPT !.pc = "read", !.held = LimitersOf(t.kind)])
    /\ UNCHANGED <<input, other, wrapper, finish_order, logged, tool_calls, walked, backup_dirs, relocated, scan_pc, issue_lists, contributed, lock_log, wave, ret>>

\* b"DDS "
DDS_MAGIC == <<68, 68, 83, 32>>

\* struct.unpack("<I", b)[0] for four bytes b: little-endian, unsigned
struct_unpack(b) == b[1] + 256 * b[2] + 65536 * b[3] + 16777216 * b[4]

\* the two numbers taken four bytes early, from dds_data[8:12] and [12:16]
dds_dimensions_at_8_and_12(dds_data) ==
    [width |-> struct_unpack(Upto(From(dds_data, 8), 4)),
     height |-> struct_unpack(Upto(From(dds_data, 12), 4))]

\* 'width = struct.unpack("<I", dds_data[12:16])[0]' and
\* 'height = struct.unpack("<I", dds_data[16:20])[0]'
dds_dimensions(dds_data) ==
    [width |-> struct_unpack(Upto(From(dds_data, 12), 4)),
     height |-> struct_unpack(Upto(From(dds_data, 16), 4))]

\* check_single_dds after the read: the lines it adds, and whether it raises
\* (struct.error on a header cut short is not an OSError); a file that is not
\* present any more gives FileNotFoundError, an OSError
DdsResult(d, f, present) ==
    LET dds_data == Upto(f.dds.data, 20)
        failed == ~present \/ f.dds.read = "OSError"
        is_dds == ~failed /\ Upto(dds_data, 4) = DDS_MAGIC
        width == dds_dimensions(dds_data).width
        height == dds_dimensions(dds_data).height
    IN [adds |-> IF is_dds /\ Len(dds_data) = 20 /\ (width % 2 # 0 \/ height % 2 # 0)
                 THEN <<Add("tex_dims", <<d.rel, f.name, width, height>>)>> ELSE <<>>,
        exc |-> is_dds /\ Len(dds_data) < 20,
        log |-> IF failed
                THEN {Log("msg_warning", <<"Failed to read DDS file", d.rel, f.name>>)} ELSE {}]

\* check_single_dds: the read has ended; the header is checked, the slot is
\* released and the task ends
DdsRead ==
    /\ input.op = "unpacked"
    /\ \E t \in Tasks :
        /\ t.kind = "dds" /\ t.pc = "read"
        /\ LET d == input.targets[t.k]
               r == DdsResult(d, d.files[t.n], Present(t.k))
               new == Ended(t, [exc |-> r.exc, val |-> <<>>])
           IN /\ Contribute(r.adds)
              /\ logged' = logged \cup r.log
              /\ pool' = Step(t, new)
              /\ semaphore' = Released(t.held \ new.held)
    /\ UNCHANGED <<input, other, wrapper, finish_order, tool_calls, walked, backup_dirs, relocated, scan_pc, wave, ret>>

\* _check_dds_batch_async: its gather has returned
DdsBatchEnd ==
    /\ input.op = "unpacked"
    /\ \E t \in Tasks :
        /\ t.kind = "batch" /\ t.pc = "gather"
        /\ \A c \in Children(t.k, {"dds"}) : c.pc = "done"
        /\ pool' = Step(t, Ended(t, [exc |-> gather_raises(Children(t.k, {"dds"})),
                                     val |-> <<>>]))
    /\ UNCHANGED <<input, other, wrapper, finish_order, logged, tool_calls, walked, backup_dirs, relocated, scan_pc, semaphore, issue_lists, contributed, lock_log, wave, ret>>

\* scan_mods_unpacked: a batch has been gathered and the next one is started
ScanModsUnpackedNextBatch ==
    /\ input.op = "unpacked"
    /\ scan_pc = "gather"
    /\ DirTasksDone
    /\ wave * batch_size < NumTargets(input.targets)
    /\ IF gather_raises(DirectoryTasks)
       THEN scan_pc' = "raised" /\ UNCHANGED <<pool, wave>>
       ELSE /\ pool' = pool (+) BatchTasks(input.targets, wave, Len(input.targets))
            /\ wave' = wave + 1
            /\ UNCHANGED scan_pc
    /\ UNCHANGED <<input, other, wrapper, finish_order, logged, tool_calls, walked, backup_dirs, relocated, semaphore, issue_lists, contributed, lock_log, ret>>

\* scan_mods_unpacked: the last batch has been gathered and the report is built
ScanModsUnpackedFinish ==
    /\ input.op = "unpacked"
    /\ scan_pc = "gather"
    /\ DirTasksDone
    /\ wave * batch_size >= NumTargets(input.targets)
    /\ IF gather_raises(DirectoryTasks)
       THEN scan_pc' = "raised" /\ UNCHANGED ret
       ELSE ret' = unpacked_report(issue_lists) /\ scan_pc' = "returned"
    /\ UNCHANGED <<input, other, wrapper, finish_order, logged, tool_calls, walked, backup_dirs, relocated, semaphore, pool, issue_lists, contributed, lock_log, wave>>

(***************************************************************************)
(* The inputs the scans are run on                                         *)
(***************************************************************************)
\* "for root, dirs, files in mod_path.walk(top_down=False)": what the loop
\* collects from the tree below the mods folder. Path.walk is called without
\* on_error, so it leaves out a directory it cannot list and raises nothing
\* ("unlistable": the mods folder itself, nothing is collected); an OSError
\* while a listing is read is raised ("OSError")
Path_walk(walk, tree) == IF walk = "ok" THEN tree ELSE <<>>

\* the settings and the filesystem a scan is run on:
\*   mod_path : "unset", "missing" (no such folder) or "ok"
\*   walk     : "ok", "unlistable" or "OSError", see Path_walk
\*   targets  : what the walk (or the glob of the log scan) collects
Settings(op, test_mode, mod_path, bsarch_exists, walk, tree) ==
    [op |-> op, TEST_MODE |-> test_mode, mod_path |-> mod_path,
     bsarch_exists |-> bsarch_exists, walk |-> walk, walk_ok |-> walk # "OSError",
     targets |-> Path_walk(walk, tree)]

\* what the tool writes before the entries of the archive: 4 blocks (-dump)
\* or 15 lines (-list)
Preamble(kind, n) == [i \in 1..n |-> Entry(kind, i)]

DumpOutput(blocks) == Preamble("preamble_block", 4) \o blocks
ListOutput(lines) == Preamble("preamble_line", 15) \o lines

\* the kinds of archive the inputs are made of, each named fn
\* headers: a version field between the magic and the format tag
Version == <<1, 0, 0, 0>>
Header(magic, tag) == magic \o Version \o tag

\* headers the check has to turn down: a wrong magic, a wrong tag, lower case,
\* the tag in place of the version, a file cut short, an empty file, and right
\* ones
Headers ==
    { Header(BTDX, GNRL), Header(BTDX, DX10),
      BTDX \o <<8, 0, 0, 0>> \o GNRL,
      Header(<<66, 83, 65, 0>>, GNRL),
      Header(<<66, 84, 68, 89>>, DX10),
      Header(BTDX, <<68, 88, 49, 49>>),
      Header(BTDX, <<103, 110, 114, 108>>),
      Header(GNRL, BTDX),
      BTDX \o GNRL,
      BTDX \o DX10 \o Version,
      BTDX \o Version \o <<71, 78, 82>>,
      BTDX,
      <<>> }

ArchiveKinds(m, fn) ==
    { [Archive(m, fn, Header(BTDX, GNRL), "ok", <<>>, FALSE) EXCEPT !.open = "OSError"],
      Archive(m, fn, Header(BTDX, DX10), "timeout", <<>>, FALSE),
      Archive(m, fn, Header(BTDX, DX10), "timeout",
              DumpOutput(<<Entry("odd", 2)>>), FALSE),
      Archive(m, fn, Header(BTDX, GNRL), "timeout", <<>>, FALSE),
      Archive(m, fn, Header(BTDX, GNRL), "nonzero", <<>>, FALSE),
      Archive(m, fn, Header(BTDX, GNRL), "spawn_error", <<>>, FALSE),
      Archive(m, fn, Header(BTDX, DX10), "spawn_error", <<>>, FALSE),
      Archive(m, fn, Header(BTDX, DX10), "ok",
              DumpOutput(<<Entry("not_dds", 1), Entry("empty", 0), Entry("odd", 2),
                           Entry("even", 3), Entry("odd_height", 4), Entry("not_decimal", 5),
                           Entry("upper_ext", 6)>>), FALSE),
      Archive(m, fn, Header(BTDX, DX10), "ok",
              DumpOutput(<<Entry("odd", 2), Entry("error", 0)>>), FALSE),
      Archive(m, fn, Header(BTDX, DX10), "ok",
              DumpOutput(<<Entry("not_dds", 1), Entry("few_tokens", 2), Entry("odd", 3)>>),
              FALSE),
      Archive(m, fn, Header(BTDX, DX10), "ok",
              DumpOutput(<<Entry("odd", 3), Entry("one_line", 2)>>), FALSE),
      Archive(m, fn, Header(BTDX, GNRL), "ok",
              ListOutput(<<Entry("mp3", 2), Entry("animationfiledata", 3),
                           Entry("xse_script", 4), Entry("uvd", 5), Entry("oc_nif", 6),
                           Entry("mp3", 1), Entry("anim_mp3", 7), Entry("xse_script", 8),
                           Entry("other", 9), Entry("m4a", 3)>>), FALSE),
      Archive(m, fn, Header(BTDX, GNRL), "ok",
              ListOutput(<<Entry("anim_mp3", 7), Entry("anim_xse", 1), Entry("anim_xse", 2),
                           Entry("xse_uvd", 3), Entry("xse_uvd", 4)>>), FALSE),
      Archive(m, fn, Header(BTDX, GNRL), "ok",
              ListOutput(<<Entry("xse_script", 4), Entry("animationfiledata", 3),
                           Entry("animationfiledata", 7)>>), TRUE) }
    \cup { Archive(m, fn, h, "ok",
                    IF subcommand(h) = "-dump" THEN DumpOutput(<<Entry("odd", 2)>>)
                    ELSE ListOutput(<<Entry("mp3", 2)>>), FALSE) : h \in Headers }

Crowd(ceiling) == ceiling + ExtraTasks

ArchiveTargets ==
    \* two archives, of the same name or not
    { <<a, b>> : a \in ArchiveKinds(1, 2), b \in ArchiveKinds(1, 1) \cup ArchiveKinds(1, 2) }
    \* more archives than subprocess slots, one of them of another kind
    \cup { <<a, b>> : a \in ArchiveKinds(1, 2),
                      b \in { k \in ArchiveKinds(Crowd(MAX_CONCURRENT_SUBPROCESSES), 1) :
                                k.open = "ok" /\ ~ba2_frmt_mismatch(k.header) } }
    \cup { <<>> }

ArchivedInputs ==
    { Settings("archived", FALSE, "ok", TRUE, "ok", t) : t \in ArchiveTargets }
    \* a mods path that is not set or not there, with and without BSArch.exe
    \cup { Settings("archived", FALSE, "unset", b, "unlistable", <<>>) : b \in BOOLEAN }
    \cup { Settings("archived", FALSE, "missing", b, "unlistable", <<>>) : b \in BOOLEAN }
    \cup { Settings("archived", FALSE, "ok", FALSE, "ok", t) :
              t \in { <<a>> : a \in ArchiveKinds(1, 1) } }
    \* a mods folder whose traversal fails
    \cup { Settings("archived", FALSE, "ok", TRUE, w, t) :
              w \in {"OSError", "unlistable"}, t \in { <<a>> : a \in ArchiveKinds(1, 1) } }

\* the lines and the patterns of the inputs
Line_ERR_a == <<69, 82, 82, 32, 97, 10>>      \* "ERR a\n"
Line_err_SKIP == <<101, 114, 114, 32, 83, 75, 73, 80, 10>>      \* "err SKIP\n"
Line_skip == <<115, 107, 105, 112, 10>>      \* "skip\n"
Line_Fail_err == <<70, 97, 105, 108, 32, 101, 114, 114, 10>>      \* "Fail err\n"
Pattern_Err == <<69, 114, 114>>      \* "Err"
Pattern_fail == <<102, 97, 105, 108>>      \* "fail"
Pattern_Skip == <<83, 107, 105, 112>>      \* "Skip"
Pattern_err == <<101, 114, 114>>      \* "err"
Pattern_skip == <<115, 107, 105, 112>>      \* "skip"
Fragment_Old == <<79, 108, 100>>      \* "Old"

\* a line without any pattern of LogPatterns
QuietLine == <<101, 114, 32, 114, 10>>      \* "er r" and the newline

\* the kinds of log file the inputs are made of
LogKinds(m, path) ==
    { LogFile(m, path, "log", "ok", <<QuietLine>>),
      LogFile(m, path, "log", "ok",
              << Line_ERR_a,
                 Line_err_SKIP,
                 Line_skip,
                 QuietLine,
                 Line_Fail_err,
                 Line_ERR_a >>),
      LogFile(m, path, "log", "OSError", <<>>),
      LogFile(m, path, "log", "UnicodeError", <<>>),
      LogFile(m, path, "crash", "ok", << Line_ERR_a >>),
      LogFile(m, path, "excluded", "ok", << Line_ERR_a >>),
      LogFile(m, path, "upper_ext", "ok", << Line_ERR_a >>),
      LogFile(m, path, "txt", "ok", << Line_ERR_a >>) }

\* the lists catch_log_errors and exclude_log_errors of the settings: patterns
\* in mixed case, no ignore pattern, no catch pattern (the key is missing)
MixedCasePatterns ==
    [catch_log_errors |-> << Pattern_Err, Pattern_fail >>,
     exclude_log_errors |-> << Pattern_Skip >>,
     exclude_log_files |-> << Fragment_Old >>, os_name |-> "nt"]

LogPatterns ==
    { MixedCasePatterns,
      [catch_log_errors |-> << Pattern_err >>, exclude_log_errors |-> <<>>,
       exclude_log_files |-> << Fragment_Old >>, os_name |-> "posix"],
      [catch_log_errors |-> <<>>, exclude_log_errors |-> << Pattern_skip >>,
       exclude_log_files |-> <<>>, os_name |-> "nt"] }

LogTargets ==
    { <<a, b>> : a \in LogKinds(1, 1), b \in LogKinds(1, 2) }
    \* more log files than log-read slots, between two others
    \cup { <<a, b, c>> : a \in LogKinds(1, 1),
                         b \in { f \in LogKinds(Crowd(MAX_CONCURRENT_LOG_READS), 2) :
                                   f.name = "log" /\ f.read = "ok"
                                   /\ f.lines = <<QuietLine>> },
                         c \in { f \in LogKinds(1, 3) : f.name = "log" } }
    \cup { <<>> }

LogInputs ==
    { Settings("log", FALSE, "ok", TRUE, "ok", t) @@ MixedCasePatterns : t \in LogTargets }
    \cup { Settings("log", FALSE, "ok", TRUE, "ok", <<a>>) @@ p :
              a \in { f \in LogKinds(1, 1) : Len(f.lines) > 1 }, p \in LogPatterns }
    \* each kind of name under each of the settings, beside a plain log file
    \cup { Settings("log", FALSE, "ok", TRUE, "ok", <<a, b>>) @@ p :
              a \in { f \in LogKinds(1, 1) : f.name # "log" },
              b \in { f \in LogKinds(1, 2) : f.name = "log" /\ Len(f.lines) > 1 },
              p \in LogPatterns }

Doc(mult, name, move) == [File(mult, name, "txt") EXCEPT !.doc_name = TRUE, !.move = move]
\* the four bytes of n as struct.pack("<I", n) gives them
LE32(n) == <<n % 256, (n \div 256) % 256, (n \div 65536) % 256, (n \div 16777216) % 256>>

\* the first 20 bytes of a file: magic, 8 bytes, and the numbers at 12 and 16
DdsHeader(magic, width, height) ==
    magic \o <<124, 0, 0, 0, 7, 16, 10, 0>> \o LE32(width) \o LE32(height)

\* the texture files of the inputs, by name
DdsFiles ==
    [odd |-> [read |-> "ok", data |-> DdsHeader(DDS_MAGIC, 101, 200)],
     even |-> [read |-> "ok", data |-> DdsHeader(DDS_MAGIC, 100, 200) \o <<1, 1>>],
     odd_height |-> [read |-> "ok", data |-> DdsHeader(DDS_MAGIC, 512, 16777217)],
     even_high_byte |-> [read |-> "ok", data |-> DdsHeader(DDS_MAGIC, 16777216, 256)],
     not_dds |-> [read |-> "ok", data |-> DdsHeader(<<68, 68, 83, 0>>, 101, 201)],
     lower_magic |-> [read |-> "ok", data |-> DdsHeader(<<100, 100, 115, 32>>, 101, 200)],
     tiny |-> [read |-> "ok", data |-> <<68, 68>>],
     short |-> [read |-> "ok", data |-> Upto(DdsHeader(DDS_MAGIC, 101, 200), 18)],
     OSError |-> [read |-> "OSError", data |-> <<>>]]

Dds(mult, name, dds) == [File(mult, name, "dds") EXCEPT !.dds = DdsFiles[dds]]

\* the kinds of directory the inputs are made of
DirKinds(rel, root_main) ==
    { Dir(1, rel, root_main, FALSE,
          <<Subdir(1, "animationfiledata", "ok"), Subdir(2, "fomod", "ok"),
            Subdir(3, "animationfiledata", "ok")>>,
          <<File(1, 12, "png"), Doc(1, 11, "ok"), [File(1, 13, "tga") EXCEPT !.bodyslide = TRUE],
            [File(1, 15, "pex") EXCEPT !.xse_script = TRUE], File(1, 14, "mp3"),
            File(1, 17, "uvd"), [File(1, 18, "nif") EXCEPT !.oc_nif = TRUE],
            [File(1, 20, "dll") EXCEPT !.xse_script = TRUE]>>),
      Dir(1, rel, root_main, FALSE,
          <<Subdir(2, "fomod", "PermissionError")>>,
          <<Doc(1, 11, "OSError"), File(1, 17, "uvd"), File(1, 16, "txt")>>),
      Dir(1, rel, root_main, FALSE,
          <<Subdir(4, "other", "ok")>>,
          <<Dds(1, 21, "odd"), Dds(1, 22, "short"), Dds(1, 23, "even"), File(1, 14, "m4a"),
            \* files that match two tests, and files after a single detection
            [File(1, 31, "nif") EXCEPT !.xse_script = TRUE, !.oc_nif = TRUE],
            [File(1, 32, "nif") EXCEPT !.xse_script = TRUE, !.oc_nif = TRUE],
            [File(1, 33, "mp3") EXCEPT !.xse_script = TRUE],
            [File(1, 34, "png") EXCEPT !.doc_name = TRUE],
            [File(1, 35, "png") EXCEPT !.bodyslide = TRUE, !.xse_script = TRUE],
            File(1, 36, "uvd"), File(1, 37, "tga"), File(1, 38, "txt")>>),
      Dir(1, rel, root_main, TRUE,
          <<>>,
          <<[File(1, 15, "pex") EXCEPT !.xse_script = TRUE], Dds(1, 24, "OSError"),
            Dds(1, 25, "not_dds")>>),
      Dir(1, rel, root_main, FALSE, <<Subdir(4, "other", "ok")>>, <<File(1, 19, "other")>>) }

\* sibling directories without subfolder or file that starts a task
PlainDirs(mult, rel, root_main) ==
    Dir(mult, rel, root_main, FALSE, <<Subdir(4, "other", "ok")>>, <<File(1, 17, "uvd")>>)

\* a subfolder named fomod, as the walk lists it before its parent: a
\* directory with files of its own
FomodDir(rel, root_main, within) ==
    [Dir(1, rel, root_main, FALSE, <<>>,
         <<Doc(1, 11, "ok"), Dds(1, 21, "odd"), File(1, 12, "png")>>)
     EXCEPT !.within = within]

\* the place of the subfolder fomod among the subfolders of d, or 0
FomodPlace(d) ==
    IF \E j \in DOMAIN d.dirs : d.dirs[j].lower = "fomod"
    THEN CHOOSE j \in DOMAIN d.dirs : d.dirs[j].lower = "fomod"
    ELSE 0

UnpackedTargets ==
    \* two sibling directories
    { <<a, b>> : a \in DirKinds(1, 0), b \in DirKinds(2, 0) }
    \* more directories than a batch holds
    \cup { <<a, PlainDirs(batch_size - 1, 3, 0), b, PlainDirs(ExtraTasks, 4, 0)>> :
              a \in { d \in DirKinds(1, 0) : d.dirs # <<>> /\ d.dirs[1].lower # "other" },
              b \in { d \in DirKinds(2, 0) : d.wf } }
    \* a fomod folder with files of its own, and its parent
    \cup { <<FomodDir(5, 2, <<2, FomodPlace(m)>>), m>> :
              m \in { d \in DirKinds(2, 0) : FomodPlace(d) > 0 } }
    \* more files to move than file-operation slots
    \cup { <<Dir(1, 1, 0, FALSE, <<Subdir(2, "fomod", "ok")>>,
                 <<Doc(Crowd(MAX_CONCURRENT_FILE_OPS), 11, m), Doc(1, 12, "ok")>>)>> :
              m \in {"PermissionError", "OSError"} }
    \* texture files with the odd number second, a number above 2^24, a magic
    \* in lower case and a file of two bytes
    \cup { <<Dir(1, 1, 0, FALSE, <<>>,
                 <<Dds(1, 26, "odd_height"), Dds(1, 27, "even_high_byte"),
                   Dds(1, 28, "lower_magic"), Dds(1, 29, "tiny")>>)>> }
    \* more texture files than texture-read slots
    \cup { <<Dir(1, 1, 0, FALSE, <<>>,
                 <<Dds(Crowd(MAX_CONCURRENT_DDS_READS), 21, r), Dds(1, 22, "odd")>>)>> :
              r \in {"even", "OSError"} }
    \cup { <<>> }

UnpackedInputs ==
    { Settings("unpacked", tm, "ok", TRUE, "ok", t) : tm \in BOOLEAN, t \in UnpackedTargets }
    \cup { Settings("unpacked", tm, "unset", TRUE, "unlistable", <<>>) : tm \in BOOLEAN }
    \* a mods folder that is not there or whose traversal fails
    \cup { Settings("unpacked", tm, "missing", TRUE, "unlistable", <<>>) : tm \in BOOLEAN }
    \cup { Settings("unpacked", tm, "ok", TRUE, w, t) :
              tm \in BOOLEAN, w \in {"OSError", "unlistable"},
              t \in { <<a>> : a \in DirKinds(1, 0) } }

\* how the scan of input i is called:
\*   "await"   : a coroutine awaits the scan
\*   "no_loop" : a *_async_wrapper is called where no event loop is running
\*   "in_loop" : a *_async_wrapper is called by code that runs in an event loop
\* The wrappers are tried on the scans of one target at most.
Callers(i) ==
    IF NumTargets(i.targets) <= 1 THEN {"await", "no_loop", "in_loop"} ELSE {"await"}

Inputs ==
    UNION { { i @@ [caller |-> c] : c \in Callers(i) } :
              i \in ArchivedInputs \cup LogInputs \cup UnpackedInputs }

(***************************************************************************)
(* The specification                                                       *)
(***************************************************************************)
\* what a scan keeps in local variables (and in its tasks), as the state of
\* a scan that has not been called yet
NotCalled(i) ==
    [input |-> i, scan_pc |-> "start", pool |-> EmptyBag,
     issue_lists |-> EmptyIssues(IF i.op = "archived" THEN ArchivedOrder ELSE UnpackedOrder),
     wave |-> 0, contributed |-> {}, lock_log |-> {}, finish_order |-> <<>>,
     walked |-> FALSE, ret |-> <<>>, semaphore |-> ScanGameCoreInit]

Init ==
    /\ input \in Inputs
    /\ scan_pc = "start"
    /\ semaphore = ScanGameCoreInit
    /\ pool = EmptyBag
    /\ issue_lists = EmptyIssues(IF input.op = "archived" THEN ArchivedOrder ELSE UnpackedOrder)
    /\ wave = 0
    /\ contributed = {}
    /\ relocated = {}
    /\ tool_calls = EmptyBag
    /\ walked = FALSE
    /\ backup_dirs = {}
    /\ logged = {}
    /\ lock_log = {}
    /\ finish_order = <<>>
    /\ wrapper = "pending"
    /\ other = NotCalled(input)
    /\ ret = <<>>

Next ==
    \/ RunAsyncUntilComplete
    \/ RunAsyncCreateTask
    \/ ScanModsArchivedBegin
    \/ Ba2ReadHeader
    \/ Ba2Acquire
    \/ Ba2Communicate
    \/ ScanModsArchivedFinish
    \/ CheckLogErrorsBegin
    \/ LogAcquire
    \/ LogRead
    \/ CheckLogErrorsFinish
    \/ ScanModsUnpackedBegin
    \/ ProcessDirectoryStart
    \/ ProcessDirectoryFiles
    \/ ProcessDirectoryEnd
    \/ MoveAcquire
    \/ MoveDone
    \/ DdsBatchStart
    \/ DdsAcquire
    \/ DdsRead
    \/ DdsBatchEnd
    \/ ScanModsUnpackedNextBatch
    \/ ScanModsUnpackedFinish

Spec == Init /\ [][Next]_vars

\* The scans whose tasks have to wait: more tasks that behave alike than a
\* limiter has slots, or more directories than a batch holds.  The tool ends
\* without a listing and the log files have one line at most: what a task
\* finds is of no account for the order of the steps.
FairInit ==
    /\ Init
    /\ \E k \in DOMAIN input.targets :
          \/ input.targets[k].mult > 1
          \/ /\ input.op = "unpacked"
             /\ \E j \in DOMAIN input.targets[k].files : input.targets[k].files[j].mult > 1
    /\ \A k \in DOMAIN input.targets :
          /\ input.op = "archived" => input.targets[k].proc # "ok"
          /\ input.op = "log" => Len(input.targets[k].lines) <= 1

\* The event loop runs a callback that is ready; the executor threads, the
\* file operations and the tool calls (bounded by their timeout) come to an
\* end: a step that can be taken is taken at last.
FairSpec == FairInit /\ [][Next]_vars /\ WF_vars(Next)

\* The scans that run at once: one with a task less than the ceiling admits
\* and one with the tasks that go beyond it. They are scans of two mods
\* folders (the settings are read at the start of each scan): archives
\* whose tool call takes its time, log files, a fomod folder and
\* documentation files that cannot be moved, textures.
TwoScansInputs(m) ==
    { Settings("archived", FALSE, "ok", TRUE, "ok", <<a>>) @@ [caller |-> "await"] :
         a \in { b \in ArchiveKinds(IF m = "most" THEN MAX_CONCURRENT_SUBPROCESSES - 1
                                                 ELSE 1 + ExtraTasks, 1) :
                    b.open = "ok" /\ b.proc \in {"timeout", "nonzero"} /\ ~b.wf } }
    \cup { Settings("log", FALSE, "ok", TRUE, "ok",
                    <<LogFile(IF m = "most" THEN MAX_CONCURRENT_LOG_READS - 1
                                            ELSE 1 + ExtraTasks,
                              1, "log", "ok", <<QuietLine>>)>>)
             @@ MixedCasePatterns @@ [caller |-> "await"] }
    \cup { Settings("unpacked", FALSE, "ok", TRUE, "ok",
                    <<Dir(1, 1, 0, FALSE, <<Subdir(2, "fomod", "PermissionError")>>,
                          <<Doc(IF m = "most" THEN MAX_CONCURRENT_FILE_OPS - 1
                                              ELSE 1 + ExtraTasks, 11, "PermissionError")>>)>>)
             @@ [caller |-> "await"] }
    \cup { Settings("unpacked", FALSE, "ok", TRUE, "ok",
                    <<Dir(1, 1, 0, FALSE, <<>>,
                          <<Dds(IF m = "most" THEN MAX_CONCURRENT_DDS_READS - 1
                                              ELSE 1 + ExtraTasks, 21, "even")>>)>>)
             @@ [caller |-> "await"] }

TwoScansInit ==
    /\ input \in TwoScansInputs("most")
    /\ scan_pc = "start"
    /\ semaphore = ScanGameCoreInit
    /\ pool = EmptyBag
    /\ issue_lists = EmptyIssues(IF input.op = "archived" THEN ArchivedOrder ELSE UnpackedOrder)
    /\ wave = 0
    /\ contributed = {}
    /\ relocated = {}
    /\ tool_calls = EmptyBag
    /\ walked = FALSE
    /\ backup_dirs = {}
    /\ logged = {}
    /\ lock_log = {}
    /\ finish_order = <<>>
    /\ wrapper = "pending"
    /\ other \in { NotCalled(i) : i \in { j \in TwoScansInputs("rest") :
                                            /\ j.op = input.op
                                            /\ DOMAIN j.targets[1] = DOMAIN input.targets[1]
                                            /\ j.op = "unpacked" =>
                                                  j.targets[1].dirs = input.targets[1].dirs } }
    /\ ret = <<>>

TwoScansNext ==
    \/ SwitchScan
    \/ ScanModsArchivedBegin
    \/ Ba2ReadHeader
    \/ Ba2Acquire
    \/ Ba2Communicate
    \/ ScanModsArchivedFinish
    \/ CheckLogErrorsBegin
    \/ LogAcquire
    \/ LogRead
    \/ CheckLogErrorsFinish
    \/ ScanModsUnpackedBegin
    \/ ProcessDirectoryStart
    \/ ProcessDirectoryFiles
    \/ ProcessDirectoryEnd
    \/ MoveAcquire
    \/ MoveDone
    \/ DdsBatchStart
    \/ DdsAcquire
    \/ DdsRead
    \/ DdsBatchEnd
    \/ ScanModsUnpackedFinish

TwoScansSpec == TwoScansInit /\ [][TwoScansNext]_vars

(***************************************************************************)
(* The method and the module-level function side by side                   *)
(***************************************************************************)
\* The method of ScanGameCore has returned. Its variables are kept in
\* 'other' and the module-level function of AsyncScanGame.py is called on
\* the same settings, the same files as before the first scan and the same
\* outcomes of the tool: scan_mods_archived_async / scan_mods_unpacked_async
\* make their own semaphores ("process_semaphore = asyncio.Semaphore(
\* MAX_CONCURRENT_SUBPROCESSES)", ...) and have the code of the methods.
CallFunction ==
    /\ scan_pc = "returned"
    /\ other.scan_pc = "start"
    /\ other' = [input |-> input, scan_pc |-> scan_pc, pool |-> pool,
                 issue_lists |-> issue_lists, wave |-> wave, contributed |-> contributed,
                 lock_log |-> lock_log, finish_order |-> finish_order, walked |-> walked,
                 ret |-> ret, semaphore |-> semaphore]
    /\ semaphore' = ScanGameCoreInit
    /\ scan_pc' = "start"
    /\ pool' = EmptyBag
    /\ issue_lists' = EmptyIssues(IF input.op = "archived" THEN ArchivedOrder ELSE UnpackedOrder)
    /\ wave' = 0
    /\ contributed' = {}
    /\ lock_log' = {}
    /\ finish_order' = <<>>
    /\ walked' = FALSE
    /\ ret' = <<>>
    /\ relocated' = {}
    /\ backup_dirs' = {}
    /\ UNCHANGED <<input, wrapper, tool_calls, logged>>

\* the scans with two targets at most, awaited by a coroutine
SideBySideInputs ==
    { i \in Inputs : i.caller = "await" /\ i.op # "log" /\ NumTargets(i.targets) <= 2 }

SideBySideInit ==
    /\ input \in SideBySideInputs
    /\ scan_pc = "start"
    /\ semaphore = ScanGameCoreInit
    /\ pool = EmptyBag
    /\ issue_lists = EmptyIssues(IF input.op = "archived" THEN ArchivedOrder ELSE UnpackedOrder)
    /\ wave = 0
    /\ contributed = {}
    /\ relocated = {}
    /\ tool_calls = EmptyBag
    /\ walked = FALSE
    /\ backup_dirs = {}
    /\ logged = {}
    /\ lock_log = {}
    /\ finish_order = <<>>
    /\ wrapper = "pending"
    /\ other = NotCalled(input)
    /\ ret = <<>>

SideBySideNext ==
    \/ CallFunction
    \/ ScanModsArchivedBegin
    \/ Ba2ReadHeader
    \/ Ba2Acquire
    \/ Ba2Communicate
    \/ ScanModsArchivedFinish
    \/ ScanModsUnpackedBegin
    \/ ProcessDirectoryStart
    \/ ProcessDirectoryFiles
    \/ ProcessDirectoryEnd
    \/ MoveAcquire
    \/ MoveDone
    \/ DdsBatchStart
    \/ DdsAcquire
    \/ DdsRead
    \/ DdsBatchEnd
    \/ ScanModsUnpackedFinish

SideBySideSpec == SideBySideInit /\ [][SideBySideNext]_vars

(***************************************************************************)
(* Properties: the limiters                                                *)
(***************************************************************************)
\* the number of tasks among the task records S
RECURSIVE NumTasks(_)
NumTasks(S) ==
    IF S = {} THEN 0
    ELSE LET t == CHOOSE u \in S : TRUE IN pool[t] + NumTasks(S \ {t})

\* the tasks inside limiter l, and those waiting to enter it
Holding(l) == NumTasks({ t \in Tasks : l \in t.held })
Waiting(l) == NumTasks({ t \in Tasks : t.pc = "acquire" /\ l \in LimitersOf(t.kind) })

Ceiling(l) ==
    CASE l = "process" -> 4 [] l = "file_ops" -> 10 [] l = "log_read" -> 20
      [] l = "dds_read" -> 50

\* C1: in every reachable state at most 4 external-tool invocations, at most
\* 10 file/folder relocations, at most 20 log-file reads and at most 50
\* texture-header reads are active at once, however many tasks are eligible.
C1_CeilingsNeverExceeded ==
    /\ Holding("process") <= 4
    /\ Holding("file_ops") <= 10
    /\ Holding("log_read") <= 20
    /\ Holding("dds_read") <= 50

\* a limiter is full while a further task waits to enter it
Saturated(l) == Holding(l) = Ceiling(l) /\ Waiting(l) > 0

C1_Witness == Saturated("process")

\* C2: a task that has ended, by a return or by an exception, holds no slot,
\* the slots taken and the slots free always add up to the ceiling, and when
\* the scan returns every limiter has all its slots free.
C2_SlotsReleasedOnExit ==
    /\ \A t \in Tasks : t.pc = "done" => t.held = {}
    /\ \A l \in Limiters : semaphore[l] + Holding(l) = Ceiling(l)
    /\ scan_pc = "returned" => \A l \in Limiters : semaphore[l] = Ceiling(l)

\* an archive scan has returned after one task raised inside the limiter and
\* the tool of another timed out
C2_Witness ==
    /\ input.op = "archived"
    /\ scan_pc = "returned"
    /\ \E t, u \in Tasks :
        /\ t.exc /\ input.targets[t.k].proc = "ok"
        /\ input.targets[u.k].proc = "timeout"

\* C3: at every point each task holds a slot of at most one limiter.
C3_AtMostOneLimiterPerTask == \A t \in Tasks : Cardinality(t.held) <= 1

\* a relocation and a texture-header read are inside their limiters at once
C3_Witness ==
    \E t, u \in Tasks : t.held = {"file_ops"} /\ u.held = {"dds_read"}

(***************************************************************************)
(* Properties: the waves of the loose-file scan                            *)
(***************************************************************************)
DirTasks(k) == { t \in Tasks : t.kind = "dir" /\ t.k = k }

\* the directory tasks of class k that gather has been given, and those ended
Started(k) == NumTasks(DirTasks(k))
Finished(k) == NumTasks({ t \in DirTasks(k) : t.pc = "done" })

\* how many of the first n directories of the walk are of class k
AmongFirst(k, n) ==
    Cardinality({ p \in 1..n : /\ Offset(input.targets, k) < p
                               /\ p <= Offset(input.targets, k) + input.targets[k].mult })

\* C4: waves of 50 run strictly one after another: whenever a directory past
\* the first w waves has been started, every directory of the first w waves
\* has finished.
C4_WavesRunInSequence ==
    input.op = "unpacked" =>
        \A w \in 1..(NumTargets(input.targets) \div 50 + 1) :
            (\E k \in DOMAIN input.targets : Started(k) > AmongFirst(k, 50 * w))
            => \A k \in DOMAIN input.targets : Finished(k) >= AmongFirst(k, 50 * w)

\* a directory of the second wave is running
C4_Witness ==
    /\ input.op = "unpacked"
    /\ \E k \in DOMAIN input.targets :
        /\ Started(k) > AmongFirst(k, 50)
        /\ \E t \in DirTasks(k) : t.pc \in {"dir_tasks", "file_tasks"}

InFlight == NumTasks({ t \in Tasks : t.kind = "dir" /\ t.pc # "done" })

\* C5: at every point of the loose-file scan at most 50 directory tasks are
\* in flight, however many directories the mod tree has.
C5_AtMostFiftyDirectoriesInFlight == input.op = "unpacked" => InFlight <= 50

\* a full wave is in flight and more directories are left
C5_Witness ==
    /\ input.op = "unpacked"
    /\ NumTargets(input.targets) > 50
    /\ InFlight = 50

(***************************************************************************)
(* Properties: the issue registry and the report                           *)
(***************************************************************************)
\* the scan got as far as its tasks and its report
Scanned ==
    /\ scan_pc = "returned"
    /\ input.mod_path = "ok" /\ input.bsarch_exists /\ input.walk_ok

\* the lines the tasks have contributed to category c: what the archive tasks
\* returned (a task that raised returned nothing), what the tasks of the
\* loose-file scan added
ContributedTo(c) ==
    IF input.op = "archived"
    THEN UNION { Range(t.val[c]) : t \in { u \in Tasks : ~u.exc } }
    ELSE { a.text : a \in { b \in contributed : b.cat = c } }

\* C6: when all tasks of a scan have finished, the registry holds for every
\* category exactly the lines the tasks contributed to it, each once: none is
\* lost and none is there that no task contributed, whatever the interleaving.
C6_RegistryIsUnionOfContributions ==
    (input.op \in {"archived", "unpacked"} /\ Scanned) =>
        \A c \in DOMAIN issue_lists :
            /\ Range(issue_lists[c]) = ContributedTo(c)
            /\ Len(issue_lists[c]) = Cardinality(ContributedTo(c))

\* an archive scan has ended in which two archives contributed the same line
\* and a category has two lines
C6_Witness ==
    /\ input.op = "archived" /\ Scanned
    /\ \E t, u \in Tasks : \E c \in DOMAIN issue_lists :
        /\ t.k # u.k /\ ~t.exc /\ ~u.exc
        /\ Range(t.val[c]) \cap Range(u.val[c]) # {}
    /\ \E c \in DOMAIN issue_lists : Len(issue_lists[c]) >= 2

\* --- the scan run with one task after the other, in the order of the targets
SequentialBa2(a) ==
    IF a.open = "OSError" \/ ba2_frmt_mismatch(a.header)
    THEN Ba2HeaderResult(a) ELSE Ba2ToolResult(a)

RECURSIVE SequentialMerge(_, _)
SequentialMerge(k, lists) ==
    IF k > Len(input.targets) THEN lists
    ELSE LET r == SequentialBa2(input.targets[k]) IN
         SequentialMerge(k + 1,
            IF r.exc THEN lists
            ELSE [c \in DOMAIN lists |-> SetUpdate(lists[c], r.val[c])])

\* the cleanup lines of the relocations of directory d: of its subfolders js
\* (fomod) or of its files js
RECURSIVE SequentialMoves(_, _, _, _)
SequentialMoves(d, subjects, js, present) ==
    IF js = <<>> THEN <<>>
    ELSE (IF input.TEST_MODE \/ (present /\ subjects[Head(js)].move = "ok")
          THEN <<Add("cleanup", <<d.rel, subjects[Head(js)].name>>)>>
          ELSE <<>>) \o SequentialMoves(d, subjects, Tail(js), present)

RECURSIVE SequentialDds(_, _, _)
SequentialDds(d, is, present) ==
    IF is = <<>> THEN <<>>
    ELSE DdsResult(d, d.files[Head(is)], present).adds \o SequentialDds(d, Tail(is), present)

\* everything the tasks of directory d add, the directory being present at
\* its place or not
SequentialAdds(d, present) ==
    dir_loop(d).adds
    \o SequentialMoves(d, d.dirs, dir_loop(d).dir_tasks, present)
    \o file_loop(d).adds
    \o SequentialMoves(d, d.files, file_loop(d).file_tasks, present)
    \o SequentialDds(d, file_loop(d).dds_files, present)

\* the walk is bottom-up: when the tasks of a directory run one after the
\* other in its order, no directory is moved before its own tasks have run
RECURSIVE SequentialLists(_, _)
SequentialLists(k, lists) ==
    IF k > Len(input.targets) THEN lists
    ELSE SequentialLists(k + 1, ApplyAdds(lists, SequentialAdds(input.targets[k], TRUE)))

SequentialReport ==
    IF input.op = "archived"
    THEN build_report(ArchivedOrder, SequentialMerge(1, EmptyIssues(ArchivedOrder)),
                      get_issue_messages("archived"),
                      <<Banner("RESULTS FROM ARCHIVED / BA2 FILES")>>)
    ELSE unpacked_report(SequentialLists(1, EmptyIssues(UnpackedOrder)))

\* C7: the report of the archive scan and of the loose-file scan is the same
\* for every interleaving and completion order of the tasks over one snapshot
\* of the mods folder: it is the report of the run that takes the targets one
\* after the other.  (Violated: the relocation of a fomod folder runs next to
\* the tasks of that folder's own files, which find them or not.)
C7_ReportIndependentOfInterleaving ==
    (input.op \in {"archived", "unpacked"} /\ Scanned) => ret = SequentialReport

\* C8: in the final report a (category, line) pair appears at most once,
\* however many tasks produced that line.
C8_NoLineTwiceInReport ==
    (input.op \in {"archived", "unpacked"} /\ scan_pc = "returned") =>
        \A i, j \in DOMAIN ret :
            (i # j /\ ret[i].kind = "line") => ret[i] # ret[j]

\* a scan has ended in which several archives of one name produced the same
\* line, which is in the report
C8_Witness ==
    /\ input.op = "archived" /\ Scanned
    /\ \E t \in Tasks : \E c \in DOMAIN issue_lists :
        /\ pool[t] >= 2 /\ ~t.exc
        /\ \E x \in Range(t.val[c]) : Line(c, x) \in Range(ret)

\* the order of the categories in the report of each mode
CategoryOrder ==
    IF input.op = "unpacked"
    THEN <<"cleanup", "animdata", "tex_dims", "tex_frmt", "snd_frmt", "xse_file", "previs">>
    ELSE <<"ba2_frmt", "animdata", "tex_dims", "tex_frmt", "snd_frmt", "xse_file", "previs">>

Place(c) == CHOOSE i \in DOMAIN CategoryOrder : CategoryOrder[i] = c

\* the part of the report after its banners
IsBody(i) == ret[i].kind \in {"template", "line"}

\* C9: the report is its banners followed by the categories in the fixed
\* order of the mode; a category is there, with its template first, if and
\* only if its set is not empty, and its lines are those of the set in
\* ascending lexicographic order.
C9_ReportLayout ==
    (input.op \in {"archived", "unpacked"} /\ Scanned) =>
        /\ \A i \in DOMAIN ret : IsBody(i) \/ ret[i].kind = "banner"
        /\ \A i, j \in DOMAIN ret :
            i < j =>
                /\ IsBody(i) => IsBody(j)
                /\ (IsBody(i) /\ IsBody(j)) => Place(ret[i].cat) <= Place(ret[j].cat)
                /\ (IsBody(i) /\ IsBody(j) /\ ret[i].cat = ret[j].cat) =>
                        /\ ret[j].kind = "line"
                        /\ ret[i].kind = "line" => StrLess(ret[i].text, ret[j].text)
        /\ \A c \in Range(CategoryOrder) :
            /\ (\E i \in DOMAIN ret : ret[i].kind = "template" /\ ret[i].cat = c)
                    <=> issue_lists[c] # <<>>
            /\ \A i \in DOMAIN ret :
                (ret[i].kind = "template" /\ ret[i].cat = c) =>
                    ret[i].mode = IF c \in {"tex_dims", "tex_frmt", "snd_frmt"}
                                  THEN "base" ELSE input.op
            /\ { ret[i].text : i \in { j \in DOMAIN ret : ret[j].kind = "line" /\ ret[j].cat = c } }
                    = Range(issue_lists[c])

\* a report with a category of two lines, another category and an empty one
C9_Witness ==
    /\ input.op \in {"archived", "unpacked"} /\ Scanned
    /\ \E c, d, e \in Range(CategoryOrder) :
        /\ c # d
        /\ Len(issue_lists[c]) >= 2 /\ issue_lists[d] # <<>> /\ issue_lists[e] = <<>>
        /\ Place(e) < Place(c)

\* the report items the tasks of target k produce by their own outcome (a
\* directory that a relocation has taken away: those that need no file of it)
OwnItems(k) ==
    LET a == input.targets[k] IN
    CASE input.op = "archived" ->
            LET r == SequentialBa2(a) IN
            IF r.exc THEN {}
            ELSE UNION { { Line(c, x) : x \in Range(r.val[c]) } : c \in DOMAIN r.val }
      [] input.op = "unpacked" ->
            { Line(b.cat, b.text) : b \in Range(SequentialAdds(a, Present(k))) }
      [] input.op = "log" ->
            IF ~IsValidLog(a) \/ LogResult(a).exc THEN {} ELSE Range(LogResult(a).val)

\* C10: whatever tasks fail, every task has run to its end when the scan
\* returns, and the lines of every target's own outcome are in the report.
C10_FailuresAreIsolated ==
    Scanned =>
        /\ AllDone
        /\ \A k \in DOMAIN input.targets : OwnItems(k) \subseteq Range(ret)

\* a scan has ended in which a task raised and a target after it has lines
C10_Witness ==
    /\ Scanned
    /\ \E t \in Tasks : \E k \in DOMAIN input.targets :
        /\ t.exc /\ t.k < k /\ OwnItems(k) # {}

(***************************************************************************)
(* Properties: failures of single items                                    *)
(***************************************************************************)
\* the text a scan returns once its traversal has succeeded: the banner(s) of
\* the scan followed by templates and lines, or the pieces of log reports
Rendered(r) ==
    CASE input.op = "archived" ->
            /\ Len(r) >= 1 /\ r[1] = Banner("RESULTS FROM ARCHIVED / BA2 FILES")
            /\ \A i \in 2..Len(r) : r[i].kind \in {"template", "line"}
      [] input.op = "unpacked" ->
            /\ Len(r) >= 2 /\ r[1] = Banner("MOD FILES SCAN")
            /\ r[2] = Banner("RESULTS FROM UNPACKED / LOOSE FILES")
            /\ \A i \in 3..Len(r) : r[i].kind \in {"template", "line"}
      [] input.op = "log" ->
            \A i \in 1..Len(r) :
                r[i].kind \in {"log_caution", "log_path", "log_error", "log_total",
                               "log_unreadable"}

\* C11: once the traversal has succeeded no failure of an item makes a scan
\* raise: no scan ever ends by an exception of one of its tasks, and what a
\* scan returns after its traversal is a rendered report.
C11_ScanReturnsReportDespiteFailures ==
    /\ scan_pc # "raised"
    /\ Scanned => Rendered(ret)

\* a scan has returned its report although every one of its tasks raised
\* (archive scan), or although a texture read raised (loose-file scan)
C11_Witness ==
    /\ Scanned
    /\ \/ /\ input.op = "archived"
          /\ Cardinality(Tasks) >= 2
          /\ \A t \in Tasks : t.exc
          /\ ret = <<Banner("RESULTS FROM ARCHIVED / BA2 FILES")>>
       \/ /\ input.op = "unpacked"
          /\ \E t \in Tasks : t.kind = "dds" /\ t.exc
          /\ Len(ret) > 2

(***************************************************************************)
(* Properties: the archives and the tool                                   *)
(***************************************************************************)
\* the archive tasks of class k
Ba2TasksOf(k) == { t \in Tasks : t.kind = "ba2" /\ t.k = k }

\* the calls of the tool made for the archives of class k, and their number
CallsFor(k) == { c \in BagToSet(tool_calls) : c.k = k }
RECURSIVE NumCalls(_)
NumCalls(S) ==
    IF S = {} THEN 0
    ELSE LET c == CHOOSE x \in S : TRUE IN tool_calls[c] + NumCalls(S \ {c})

\* the header is 12 bytes that start with BTDX and end with tag
Recognized(h, tag) ==
    /\ Len(h) = 12
    /\ \A i \in 1..4 : h[i] = BTDX[i] /\ h[8 + i] = tag[i]

NoIssues(val) == \A c \in DOMAIN val : val[c] = <<>>

\* the tool's output that the parser cannot take: a block of a single line or
\* a dimensions line of fewer than five tokens
ParseError(a) ==
    /\ subcommand(a.header) = "-dump"
    /\ \E i \in DOMAIN a.stdout :
          /\ i > DumpPreambleBlocks
          /\ LET block == a.stdout[i].text IN
             \/ Len(block) = 1
             \/ /\ Len(block) >= 3 /\ str_in(Ext_dds, block[2])
                /\ Len(split(block[3], 4)) < 5

\* the processing of archive a fails
ProcessingFails(a) ==
    \/ a.open = "OSError"
    \/ /\ Recognized(a.header, DX10) \/ Recognized(a.header, GNRL)
       /\ \/ a.proc # "ok"
          \/ subcommand(a.header) = "-dump" /\ ends_with_error(a.stdout)
          \/ ParseError(a)

\* C12: an archive whose processing fails (unreadable header, timeout,
\* nonzero exit, a final block "Error:", an error while parsing) contributes
\* no line to any category: its task raised, or returned without any line.
C12_FailedArchiveContributesNothing ==
    \A t \in Tasks :
        (t.kind = "ba2" /\ t.pc = "done" /\ ProcessingFails(input.targets[t.k]))
            => (t.exc \/ NoIssues(t.val))

\* C13: an archive whose tool call times out: the tool is called once for it
\* and not again, its task returns without a line and without a slot, the
\* slots are all free at the end and the lines of the other archives are in
\* the report.
C13_TimeoutDropsOneArchive ==
    \A k \in DOMAIN input.targets :
        (input.op = "archived" /\ input.targets[k].proc = "timeout"
         /\ ~ba2_frmt_mismatch(input.targets[k].header) /\ input.targets[k].open = "ok") =>
            /\ NumCalls(CallsFor(k)) <= input.targets[k].mult
            /\ \A t \in Ba2TasksOf(k) :
                  t.pc = "done" => (~t.exc /\ NoIssues(t.val) /\ t.held = {})
            /\ Scanned =>
                  /\ NumCalls(CallsFor(k)) = input.targets[k].mult
                  /\ \A t \in Ba2TasksOf(k) : t.pc = "done"
                  /\ semaphore["process"] = MAX_CONCURRENT_SUBPROCESSES
                  /\ \A j \in DOMAIN input.targets : OwnItems(j) \subseteq Range(ret)

\* a scan has returned in which more archives timed out than there are
\* subprocess slots, after output had been written, and the report has the
\* lines of another archive
C13_Witness ==
    /\ Scanned /\ input.op = "archived"
    /\ \E k, j \in DOMAIN input.targets :
        /\ input.targets[k].proc = "timeout" /\ input.targets[k].stdout # <<>>
        /\ input.targets[k].mult > MAX_CONCURRENT_SUBPROCESSES
        /\ NumCalls(CallsFor(k)) = input.targets[k].mult
        /\ OwnItems(j) # {} /\ OwnItems(j) \subseteq Range(ret)

\* C14: a header of BTDX and GNRL sends the archive to the general-format
\* branch (-list), one of BTDX and DX10 to the texture-format branch (-dump);
\* every other header of at most 12 bytes gives exactly one ba2_frmt line,
\* which holds the header's bytes, no line of another category and no call
\* of the tool.
C14_HeaderDecidesFormat ==
    \A t \in Tasks :
        (t.kind = "ba2" /\ t.pc # "header" /\ input.targets[t.k].open = "ok") =>
            LET a == input.targets[t.k]
                h == a.header
                branch(sub) ==
                    /\ t.pc \in {"communicate", "done"} =>
                          (CallsFor(t.k) # {} /\ \A c \in CallsFor(t.k) : c.subcommand = sub)
                    /\ t.pc = "done" /\ ~t.exc => t.val["ba2_frmt"] = <<>>
            IN /\ Len(h) <= 12
               /\ CASE Recognized(h, GNRL) -> branch("-list")
                    [] Recognized(h, DX10) -> branch("-dump")
                    [] OTHER ->
                        /\ t.pc = "done" /\ ~t.exc
                        /\ t.val["ba2_frmt"] = << <<a.filename>> \o h >>
                        /\ \A c \in DOMAIN t.val : c # "ba2_frmt" => t.val[c] = <<>>
                        /\ CallsFor(t.k) = {}

\* a scan has returned whose report has the line of a header cut short after
\* its magic and tag, next to an archive that went to the -dump branch
C14_Witness ==
    /\ Scanned /\ input.op = "archived"
    /\ \E k, j \in DOMAIN input.targets :
        /\ input.targets[k].header = BTDX \o GNRL
        /\ Line("ba2_frmt", <<input.targets[k].filename>> \o BTDX \o GNRL) \in Range(ret)
        /\ Recognized(input.targets[j].header, DX10)
        /\ \E c \in CallsFor(j) : c.subcommand = "-dump"

\* C15: for an unrecognized header the tool is never called and no slot is
\* taken; for a recognized one the tool is run exactly once, by a task that
\* holds a subprocess slot, with -dump for DX10 and -list for GNRL.
C15_ToolRunsOncePerRecognizedArchive ==
    \A k \in DOMAIN input.targets :
        input.op = "archived" =>
            LET a == input.targets[k]
                recognized == a.open = "ok"
                              /\ (Recognized(a.header, DX10) \/ Recognized(a.header, GNRL))
                started == { c \in CallsFor(k) : c.started }
            IN IF recognized
               THEN /\ \A c \in CallsFor(k) :
                          /\ c.held = {"process"}
                          /\ c.subcommand = IF Recognized(a.header, DX10) THEN "-dump" ELSE "-list"
                    /\ NumCalls(CallsFor(k)) <= a.mult
                    /\ Scanned => NumCalls(started) = a.mult
               ELSE /\ CallsFor(k) = {}
                    /\ \A t \in Ba2TasksOf(k) : t.held = {}

(***************************************************************************)
(* Properties: failures of the scan as a whole                             *)
(***************************************************************************)
\* C16: when the traversal of the mods folder fails, the loose-file scan and
\* the archive scan return one "could not ..." string, start no task and
\* build no report: no banner, no block.
C16_TraversalFailureAbortsScan ==
    (scan_pc = "returned" /\ walked /\ input.walk # "ok") =>
        /\ ret \in { <<Message("Error: Could not access mod files")>>,
                     <<Message("Error: Could not scan for BA2 files")>> }
        /\ pool = EmptyBag

\* the warning the claim names for the settings, or "none"
ExpectedWarning ==
    CASE input.op = "archived" /\ input.mod_path = "unset" -> "Mods_Path_Missing"
      [] input.op = "archived" /\ input.mod_path = "missing" -> "Mods_Path_Invalid"
      [] input.op = "archived" /\ input.mod_path = "ok" /\ ~input.bsarch_exists ->
            "Mods_BSArch_Missing"
      [] input.op = "unpacked" /\ input.mod_path = "unset" -> "Mods_Path_Missing"
      [] OTHER -> "none"

\* C17: with the mods path unset, or (archive scan) not there, or BSArch.exe
\* missing, the scan returns the one string of the first of these that
\* applies: it never walks the folder, starts no task, takes no slot and
\* returns no banner.
C17_PrechecksReturnOneString ==
    ExpectedWarning # "none" =>
        /\ ~walked
        /\ pool = EmptyBag
        /\ semaphore = ScanGameCoreInit
        /\ scan_pc \in {"start", "returned"}
        /\ scan_pc = "returned" => ret = <<Message(ExpectedWarning)>>

\* the archive scan has returned for a mods path that is not there while
\* BSArch.exe is missing too, and the loose-file scan for a path not set
C17_Witness ==
    /\ scan_pc = "returned"
    /\ \/ /\ input.op = "archived" /\ input.mod_path = "missing" /\ ~input.bsarch_exists
          /\ ret = <<Message("Mods_Path_Invalid")>>
       \/ /\ input.op = "archived" /\ input.mod_path = "unset" /\ ~input.bsarch_exists
          /\ ret = <<Message("Mods_Path_Missing")>>

(***************************************************************************)
(* Properties: the relocations                                             *)
(***************************************************************************)
\* the tasks that relocate a fomod folder or a documentation file
MoveTasks == { t \in Tasks : t.kind \in {"fomod", "file"} }

\* C18: in TEST_MODE the loose-file scan changes nothing on disk: no folder
\* is made in the backup and nothing is moved, so every fomod folder and
\* every file is where it was; the report still has the cleanup line of each.
C18_DryRunLeavesFilesystem ==
    (input.op = "unpacked" /\ input.TEST_MODE) =>
        /\ backup_dirs = {}
        /\ relocated = {}
        /\ \A t \in MoveTasks : t.pc # "move"
        /\ scan_pc = "returned" =>
              \A t \in MoveTasks :
                  Line("cleanup", cleanup_line(t).text) \in Range(ret)

\* a dry run has returned with the cleanup line of a fomod folder and of a
\* file, both tasks done
C18_Witness ==
    /\ input.op = "unpacked" /\ input.TEST_MODE /\ scan_pc = "returned"
    /\ \E t, u \in MoveTasks :
        /\ t.kind = "fomod" /\ u.kind = "file"
        /\ Line("cleanup", cleanup_line(t).text) \in Range(ret)
        /\ Line("cleanup", cleanup_line(u).text) \in Range(ret)

\* --- the dry run of the loose-file scan: every relocation gives its line
RECURSIVE DryRunMoves(_, _, _)
DryRunMoves(d, subjects, js) ==
    IF js = <<>> THEN <<>>
    ELSE <<Add("cleanup", <<d.rel, subjects[Head(js)].name>>)>>
         \o DryRunMoves(d, subjects, Tail(js))

DryRunAdds(d) ==
    dir_loop(d).adds
    \o DryRunMoves(d, d.dirs, dir_loop(d).dir_tasks)
    \o file_loop(d).adds
    \o DryRunMoves(d, d.files, file_loop(d).file_tasks)
    \o SequentialDds(d, file_loop(d).dds_files, TRUE)

RECURSIVE DryRunLists(_, _)
DryRunLists(k, lists) ==
    IF k > Len(input.targets) THEN lists
    ELSE DryRunLists(k + 1, ApplyAdds(lists, DryRunAdds(input.targets[k])))

DryRunReport == unpacked_report(DryRunLists(1, EmptyIssues(UnpackedOrder)))

\* C19: the loose-file scan returns for a mods folder the same text with
\* TEST_MODE off as with TEST_MODE on: the report of the dry run.
C19_DryRunReportEqualsNormalReport ==
    (input.op = "unpacked" /\ Scanned) => ret = DryRunReport

\* the part of C19 that holds: the dry run itself always gives that report
DryRunReportIsFixed ==
    (input.op = "unpacked" /\ Scanned /\ input.TEST_MODE) => ret = DryRunReport

\* C20: in one loose-file scan every path is moved by at most one task, and
\* no task moves a path that another task has moved or is moving: a file is
\* not moved while or after the folder it is in is moved as a fomod folder.
C20_EachPathMovedByOneTask ==
    \A t \in MoveTasks :
        t.pc = "move" =>
            /\ pool[t] <= (IF t.kind = "file" THEN Subject(t).mult ELSE 1)
            /\ Present(t.k)
            /\ ~\E u \in MoveTasks :
                  u.kind = "fomod" /\ u.pc = "move" /\ <<u.k, u.n>> = input.targets[t.k].within

\* a relocation that has ended in a permission or filesystem error: the task
\* is done, the scan moves files, and its subject has not been moved
MoveFailed(t) ==
    /\ t.kind \in {"fomod", "file"} /\ t.pc = "done"
    /\ ~input.TEST_MODE
    /\ <<t.kind, t.k, t.n>> \notin relocated

\* everything the two loops of process_directory classify in directory k is in
\* the registry, and a task has been made for each of its relocations and for
\* its queue of texture files
DirectoryClassified(k) ==
    LET d == input.targets[k]
        dl == dir_loop(d)
        fl == file_loop(d)
    IN /\ Range(dl.adds \o fl.adds) \subseteq contributed
       /\ \A j \in Range(dl.dir_tasks) : \E c \in Children(k, {"fomod"}) : c.n = j
       /\ \A i \in Range(fl.file_tasks) : \E c \in Children(k, {"file"}) : c.n = i
       /\ fl.dds_files # <<>> => Children(k, {"batch"}) # {}

\* C21: when the relocation of a fomod folder or of a documentation file
\* fails with a permission or filesystem error, a message about that entry is
\* logged, the relocation task ends without raising and no cleanup line is
\* recorded for the entry; the processing of its directory goes on: once the
\* scan has returned, the directory task has ended without an exception and
\* all its subfolders and files have been classified.
C21_FailedRelocationIsLoggedAndSkipped ==
    \A t \in Tasks :
        MoveFailed(t) =>
            /\ ~t.exc
            /\ \E l \in logged :
                  /\ l.fn \in {"msg_error", "msg_warning"}
                  /\ Len(l.about) = 4 /\ <<l.about[2], l.about[3], l.about[4]>> = <<t.kind, t.k, t.n>>
            /\ cleanup_line(t) \notin contributed
            /\ scan_pc = "returned" =>
                  /\ Line("cleanup", cleanup_line(t).text) \notin Range(ret)
                  /\ \A u \in DirectoryTasks :
                        u.k = t.k => u.pc = "done" /\ ~u.exc /\ DirectoryClassified(u.k)

\* a scan has returned in which the move of a fomod folder ended in a
\* PermissionError and the move of a documentation file in an OSError; the
\* previs line of a file listed after that one is in the report
C21_Witness ==
    /\ input.op = "unpacked" /\ scan_pc = "returned"
    /\ \E t, u \in Tasks :
        /\ MoveFailed(t) /\ t.kind = "fomod" /\ Subject(t).move = "PermissionError"
        /\ MoveFailed(u) /\ u.kind = "file" /\ Subject(u).move = "OSError" /\ u.k = t.k
        /\ \E i \in DOMAIN input.targets[u.k].files :
              /\ i > u.n /\ input.targets[u.k].files[i].ext = "uvd"
              /\ Line("previs", <<input.targets[u.k].root_main>>) \in Range(ret)

(***************************************************************************)
(* Properties: the classification of loose files                          *)
(***************************************************************************)
\* the lines process_directory itself adds for directory d, in the order of
\* its two loops
DirectoryAdds(d) == dir_loop(d).adds \o file_loop(d).adds

\* how many of the adds are of category cat
RECURSIVE CountAdds(_, _)
CountAdds(adds, cat) ==
    IF adds = <<>> THEN 0
    ELSE (IF Head(adds).cat = cat THEN 1 ELSE 0) + CountAdds(Tail(adds), cat)

\* the entries of directory d that match the test of a single detection
AnimDataDirs(d) == { j \in DOMAIN d.dirs : d.dirs[j].lower = "animationfiledata" }

PrevisFiles(d) ==
    { i \in DOMAIN d.files :
        /\ d.files[i].ext = "uvd" \/ d.files[i].oc_nif
        /\ ~d.files[i].xse_script }

XseFiles(d) == { i \in DOMAIN d.files : d.files[i].xse_script /\ d.files[i].ext \in {"pex", "dll"} }

\* C22: a directory task adds at most one line to each of animdata, xse_file
\* and previs, however many of its subfolders and files match; when a
\* subfolder is named animationfiledata, or a file ends in .uvd or _oc.nif, it
\* adds exactly one, and one for the script extender's files unless the path
\* contains "workshop framework".
C22_SingleDetectionPerDirectory ==
    \A t \in DirectoryTasks :
        t.pc # "ready" =>
            LET d == input.targets[t.k] IN
            /\ \A cat \in {"animdata", "xse_file", "previs"} : CountAdds(DirectoryAdds(d), cat) <= 1
            /\ AnimDataDirs(d) # {} => CountAdds(dir_loop(d).adds, "animdata") = 1
            /\ PrevisFiles(d) # {} => CountAdds(file_loop(d).adds, "previs") = 1
            /\ (XseFiles(d) # {} /\ ~d.wf) => CountAdds(file_loop(d).adds, "xse_file") = 1
            /\ t.pc = "done" /\ ~t.exc => Range(DirectoryAdds(d)) \subseteq contributed

\* the task of a directory with two subfolders animationfiledata, two files
\* of the script extender and two previs files has ended, its three lines in
\* the registry
C22_Witness ==
    \E t \in DirectoryTasks :
        LET d == input.targets[t.k] IN
        /\ t.pc = "done"
        /\ Cardinality(AnimDataDirs(d)) = 2
        /\ Cardinality(PrevisFiles(d)) = 2
        /\ Cardinality(XseFiles(d)) = 2
        /\ \A cat \in {"animdata", "xse_file", "previs"} :
              /\ CountAdds(DirectoryAdds(d), cat) = 1
              /\ Add(cat, <<d.root_main>>) \in contributed

(***************************************************************************)
(* Properties: the log scan                                                *)
(***************************************************************************)
\* two characters that differ at most in case
SameLetter(a, b) ==
    \/ a = b
    \/ a \in 65..90 /\ b = a + 32
    \/ b \in 65..90 /\ a = b + 32

\* the line contains the pattern, compared without regard to case
ContainsIgnoringCase(line, pattern) ==
    \E i \in 0..(Len(line) - Len(pattern)) :
        \A j \in DOMAIN pattern : SameLetter(line[i + j], pattern[j])

\* the line has a pattern of catch_log_errors and none of exclude_log_errors
ToBeReported(line) ==
    /\ \E n \in DOMAIN input.catch_log_errors :
          ContainsIgnoringCase(line, input.catch_log_errors[n])
    /\ \A n \in DOMAIN input.exclude_log_errors :
          ~ContainsIgnoringCase(line, input.exclude_log_errors[n])

\* the tasks of the log scan that have read their file and ended
LogTasksRead ==
    { t \in Tasks : input.op = "log" /\ t.pc = "done" /\ input.targets[t.k].read = "ok" }

\* the line reported for a file, with its marker
Reported(f, line) == Item("log_error", "ERROR > ", "", <<f.path, line>>)

\* C23: a line of a log file is reported if and only if, compared without
\* regard to case, it contains at least one catch pattern and none of the
\* ignore patterns; every reported line is a line of the file with the marker
\* "ERROR > " before it.
C23_LineReportedIffCaughtAndNotIgnored ==
    \A t \in LogTasksRead :
        LET f == input.targets[t.k] IN
        /\ ~t.exc
        /\ \A i \in DOMAIN f.lines :
              Reported(f, f.lines[i]) \in Range(t.val) <=> ToBeReported(f.lines[i])
        /\ \A r \in Range(t.val) :
              r.kind = "log_error" =>
                  \E i \in DOMAIN f.lines : r = Reported(f, f.lines[i])
        /\ scan_pc = "returned" =>
              \A i \in DOMAIN f.lines :
                  Reported(f, f.lines[i]) \in Range(ret) <=> ToBeReported(f.lines[i])

\* the scan has returned with patterns "Err" and "Skip": the line "ERR a" is
\* in the report, the line "err SKIP" of the same file is not
C23_Witness ==
    /\ input.op = "log" /\ scan_pc = "returned"
    /\ \E t \in LogTasksRead :
        LET f == input.targets[t.k] IN
        \E i, j \in DOMAIN f.lines :
            /\ f.lines[i] = Line_ERR_a
            /\ f.lines[j] = Line_err_SKIP
            /\ input.catch_log_errors # <<>>
            /\ input.catch_log_errors[1] = Pattern_Err
            /\ Reported(f, f.lines[i]) \in Range(ret)
            /\ Reported(f, f.lines[j]) \notin Range(ret)

\* the lines of file f that are to be reported, in the order of the file
MatchingLines(f) == SelectSeq(f.lines, ToBeReported)

\* the block of a file with matching lines: the notice, the path header, the
\* matching lines with their marker, the footer with their number
ExpectedBlock(f) ==
    LET matching == MatchingLines(f) IN
    <<Item("log_caution", "CAUTION", "", <<>>),
      Item("log_caution", "Errors do not necessarily mean", "", <<>>),
      Item("log_path", "LOG PATH > ", "", <<f.path>>)>>
    \o [i \in DOMAIN matching |-> Reported(f, matching[i])]
    \o <<Item("log_total", "TOTAL NUMBER OF DETECTED LOG ERRORS", "", <<Len(matching)>>)>>

\* no piece of the report r names the file f
NotNamed(r, f) ==
    \A i \in DOMAIN r :
        r[i].kind \in {"log_path", "log_error", "log_unreadable"} => r[i].text[1] # f.path

\* the block stands in the report r, in one piece
HasBlock(r, block) ==
    \E off \in 0..(Len(r) - Len(block)) : SubSeq(r, off + 1, off + Len(block)) = block

\* C24: a log file that can be read contributes a block if and only if it
\* has at least one matching line; the block is (after its two lines of
\* notice) the path header, exactly the matching lines in the order of the
\* file, and a footer with the number of matching lines.
C24_BlockIffMatchingLines ==
    \A t \in LogTasksRead :
        LET f == input.targets[t.k] IN
        /\ t.val = (IF MatchingLines(f) = <<>> THEN <<>> ELSE ExpectedBlock(f))
        /\ scan_pc = "returned" =>
              /\ MatchingLines(f) # <<>> => HasBlock(ret, ExpectedBlock(f))
              /\ MatchingLines(f) = <<>> =>
                    NotNamed(ret, f)

\* the scan has returned the block of a file of six lines of which three
\* match, the same line twice among them, with the footer 3; a file without
\* matching line is in the same folder and has no block
C24_Witness ==
    /\ input.op = "log" /\ scan_pc = "returned"
    /\ \E t, u \in LogTasksRead :
        LET f == input.targets[t.k]
            g == input.targets[u.k]
        IN /\ Len(f.lines) = 6 /\ Len(MatchingLines(f)) = 3
           /\ MatchingLines(f)[1] = MatchingLines(f)[3]
           /\ HasBlock(ret, ExpectedBlock(f))
           /\ MatchingLines(g) = <<>> /\ g.lines # <<>>
           /\ NotNamed(ret, g)

\* the piece of the report for a log file that could not be opened or read
UnableToScan(f) == Item("log_unreadable", "Unable to scan this log file", "", <<f.path>>)

\* how many pieces of the report r are the piece x
RECURSIVE Occurrences(_, _)
Occurrences(r, x) ==
    IF r = <<>> THEN 0 ELSE (IF Head(r) = x THEN 1 ELSE 0) + Occurrences(Tail(r), x)

\* the tasks of the log scan whose file could not be opened or read (OSError)
LogTasksFailed ==
    { t \in Tasks : input.op = "log" /\ t.pc = "done" /\ input.targets[t.k].read = "OSError" }

\* C25: a log file whose open or read fails with an OSError gives exactly one
\* piece of its own in the report, the warning that names the file, and
\* nothing else; its task ends without exception and without its log-read
\* slot, and the files that can be read have the block they have without it.
C25_UnreadableLogGivesOneWarning ==
    \A t \in LogTasksFailed :
        LET f == input.targets[t.k] IN
        /\ ~t.exc /\ t.held = {}
        /\ t.val = <<UnableToScan(f)>>
        /\ \E l \in logged : l.about = <<"UNABLE TO SCAN", f.path>>
        /\ scan_pc = "returned" =>
              /\ AllDone /\ semaphore = ScanGameCoreInit
              /\ Occurrences(ret, UnableToScan(f)) = f.mult
              /\ \A i \in DOMAIN ret :
                    (ret[i].kind \in {"log_path", "log_error", "log_unreadable"}
                     /\ ret[i].text[1] = f.path) => ret[i] = UnableToScan(f)
              /\ \A u \in LogTasksRead :
                    LET g == input.targets[u.k] IN
                    /\ u.val = (IF MatchingLines(g) = <<>> THEN <<>> ELSE ExpectedBlock(g))
                    /\ MatchingLines(g) # <<>> => HasBlock(ret, ExpectedBlock(g))

\* the scan has returned: the first file could not be read and has its one
\* warning in the report, the second has its block of matching lines
C25_Witness ==
    /\ input.op = "log" /\ scan_pc = "returned"
    /\ \E t \in LogTasksFailed, u \in LogTasksRead :
        LET f == input.targets[t.k]
            g == input.targets[u.k]
        IN /\ t.k < u.k
           /\ Occurrences(ret, UnableToScan(f)) = 1
           /\ MatchingLines(g) # <<>> /\ HasBlock(ret, ExpectedBlock(g))
           /\ ret[1] = UnableToScan(f)

(***************************************************************************)
(* Properties: the headers of loose texture files                          *)
(***************************************************************************)
\* the unsigned number whose bytes, least significant first, are b
RECURSIVE LittleEndian(_)
LittleEndian(b) == IF b = <<>> THEN 0 ELSE Head(b) + 256 * LittleEndian(Tail(b))

\* the tasks that have read the header of a texture file that was there
DdsTasksRead ==
    { t \in Tasks : /\ t.kind = "dds" /\ t.pc = "done" /\ Present(t.k)
                    /\ input.targets[t.k].files[t.n].dds.read = "ok" }

\* the bytes of the file task t has read
DataOf(t) == input.targets[t.k].files[t.n].dds.data

HasMagic(data) == Len(data) >= 4 /\ SubSeq(data, 1, 4) = <<68, 68, 83, 32>>

WidthOf(data) == LittleEndian(SubSeq(data, 13, 16))
HeightOf(data) == LittleEndian(SubSeq(data, 17, 20))

\* the tex_dims lines recorded for the file of task t
DimsLinesOf(t) ==
    { a \in contributed :
        /\ a.cat = "tex_dims"
        /\ a.text[1] = input.targets[t.k].rel
        /\ a.text[2] = input.targets[t.k].files[t.n].name }

EndsIgnoringCase(text, suffix) ==
    /\ Len(suffix) <= Len(text)
    /\ \A j \in DOMAIN suffix : SameLetter(text[Len(text) - Len(suffix) + j], suffix[j])

\* the tasks that have parsed the output the tool gave with exit code 0 for
\* an archive whose header chose the subcommand sub
Ba2TasksParsed(sub) ==
    { t \in Tasks :
        /\ input.op = "archived" /\ t.kind = "ba2" /\ t.pc = "done"
        /\ LET a == input.targets[t.k] IN
           /\ a.open = "ok" /\ a.proc = "ok"
           /\ Recognized(a.header, IF sub = "-dump" THEN DX10 ELSE GNRL) }

\* what line i of the -list output of archive a is: a sound file, and, when
\* it is none, a file of the animation data, a script of the script extender,
\* a previs file
IsSound(a, i) ==
    \/ EndsIgnoringCase(a.stdout[i].text, <<46, 109, 112, 51>>)      \* ".mp3"
    \/ EndsIgnoringCase(a.stdout[i].text, <<46, 109, 52, 97>>)      \* ".m4a"

IsAnim(a, i) ==
    /\ ~IsSound(a, i)
    /\ ContainsIgnoringCase(a.stdout[i].text,      \* "animationfiledata"
          <<97, 110, 105, 109, 97, 116, 105, 111, 110, 102, 105, 108, 101, 100, 97, 116, 97>>)

IsXse(a, i) ==
    /\ ~IsSound(a, i)
    /\ ContainsIgnoringCase(a.stdout[i].text,      \* "scripts\game.pex"
          <<115, 99, 114, 105, 112, 116, 115, 92, 103, 97, 109, 101, 46, 112, 101, 120>>)

IsPrevis(a, i) ==
    /\ ~IsSound(a, i)
    /\ \/ EndsIgnoringCase(a.stdout[i].text, <<46, 117, 118, 100>>)      \* ".uvd"
       \/ EndsIgnoringCase(a.stdout[i].text, <<95, 111, 99, 46, 110, 105, 102>>)      \* "_oc.nif"

\* the archive is below a folder whose path has "workshop framework"
InWorkshopFramework(a) ==
    ContainsIgnoringCase(a.parent, <<119, 111, 114, 107, 115, 104, 111, 112, 32,
                                     102, 114, 97, 109, 101, 119, 111, 114, 107>>)

\* the lines after the first 15
Remaining(a) == { i \in DOMAIN a.stdout : i > 15 }

\* the first of a set of lines, 0 when there is none
First(S) == IF S = {} THEN 0 ELSE CHOOSE i \in S : \A j \in S : i <= j

\* the one line that is taken as the match of the animation data, of the
\* script extender, of the previs data (0: none): the first that matches and
\* is not taken for a category before it
Matches(a) ==
    LET anim == First({ j \in Remaining(a) : IsAnim(a, j) })
        xse == IF InWorkshopFramework(a) THEN 0
               ELSE First({ j \in Remaining(a) \ {anim} : IsXse(a, j) })
        previs == First({ j \in Remaining(a) \ {anim, xse} : IsPrevis(a, j) })
    IN [animdata |-> anim, xse_file |-> xse, previs |-> previs]

OneLineIf(val, filename, found) == val = IF found THEN << <<filename>> >> ELSE <<>>

\* C27: for a general-format archive whose tool call gave output with exit
\* code 0, the first 15 lines count for nothing; every later line that ends
\* in .mp3 or .m4a, in either case, has its snd_frmt line; animdata, xse_file
\* and previs have at most one line each, there when a later line that is no
\* sound file matches and is not taken as the match of a category before it;
\* no xse_file line when the folder of the archive has "workshop framework"
\* in its path, in either case; tex_dims, tex_frmt and ba2_frmt have no line.
C27_ListOutputClassified ==
    \A t \in Ba2TasksParsed("-list") :
        LET a == input.targets[t.k]
            at == Matches(a)
        IN /\ ~t.exc
           /\ Range(t.val["snd_frmt"]) =
                 { <<a.filename>> \o str_lower(a.stdout[i].text) :
                     i \in { j \in Remaining(a) : IsSound(a, j) } }
           /\ \A c \in {"animdata", "xse_file", "previs"} :
                 OneLineIf(t.val[c], a.filename, at[c] # 0)
           /\ InWorkshopFramework(a) => t.val["xse_file"] = <<>>
           /\ \A c \in {"tex_dims", "tex_frmt", "ba2_frmt"} : t.val[c] = <<>>

\* the scan has returned with, in the report, the lines of an archive whose
\* output has sound files in both cases of the suffix, several matches of
\* each single detection and matching lines among the first 15, and an
\* archive in "Workshop Framework" whose script line was left out
C27_Witness ==
    /\ Scanned /\ input.op = "archived"
    /\ \E t, u \in Ba2TasksParsed("-list") :
        LET a == input.targets[t.k]
            b == input.targets[u.k]
        IN /\ \E i \in 1..15 : EndsIgnoringCase(a.stdout[i].text, <<46, 109, 112, 51>>)
           /\ Len(t.val["snd_frmt"]) >= 3
           /\ \E i, j \in Remaining(a) : i < j /\ IsXse(a, i) /\ IsXse(a, j)
           /\ t.val["animdata"] # <<>> /\ t.val["xse_file"] # <<>> /\ t.val["previs"] # <<>>
           /\ \A c \in {"snd_frmt", "animdata", "xse_file", "previs"} :
                 \A x \in Range(t.val[c]) : Line(c, x) \in Range(ret)
           /\ InWorkshopFramework(b) /\ b.parent # str_lower(b.parent)
           /\ \E i \in Remaining(b) : IsXse(b, i)
           /\ u.val["xse_file"] = <<>> /\ u.val["animdata"] # <<>>

\* the block has a line that contains the marker "Ext: dds"
HasMarker(block) ==
    \E n \in DOMAIN block : str_in(<<69, 120, 116, 58, 32, 100, 100, 115>>, block[n])

\* the words of a line: the longest runs without a blank
Words(line) ==
    LET starts == { i \in DOMAIN line : line[i] # 32 /\ (i = 1 \/ line[i - 1] = 32) }
        EndOf(i) == CHOOSE e \in i..Len(line) :
                        /\ \A x \in i..e : line[x] # 32
                        /\ e = Len(line) \/ line[e + 1] = 32
    IN { <<i, SubSeq(line, i, EndOf(i))>> : i \in starts }

\* the n-th word of a line, <<>> when it has fewer
Word(line, n) ==
    LET W == Words(line)
        nth == { w \in W : Cardinality({ v \in W : v[1] < w[1] }) = n - 1 }
    IN IF nth = {} THEN <<>> ELSE (CHOOSE w \in nth : TRUE)[2]

\* the word is a number in decimal digits, and it is odd
OddNumber(word) ==
    /\ word # <<>>
    /\ \A i \in DOMAIN word : word[i] \in 48..57
    /\ word[Len(word)] \in {49, 51, 53, 55, 57}

\* the width (second word) or the height (fourth word) on the third line of
\* the block is odd
OddDimensions(block) ==
    /\ Len(block) >= 3
    /\ OddNumber(Word(block[3], 2)) \/ OddNumber(Word(block[3], 4))

\* the task's result has a tex_frmt line, a tex_dims line, for the block
YieldsFormat(t, a, block) == (<<a.filename>> \o block[1]) \in Range(t.val["tex_frmt"])
YieldsDimensions(t, a, block) ==
    \E x \in Range(t.val["tex_dims"]) :
        /\ Head(x) = a.filename
        /\ Len(x) > Len(block[1])
        /\ SubSeq(x, Len(x) - Len(block[1]), Len(x)) = <<32>> \o block[1]

\* the blocks after the first 4 that are not empty
RemainingBlocks(a) == { i \in DOMAIN a.stdout : i > 4 /\ a.stdout[i].text # <<>> }

\* C28: for a texture-format archive whose tool call gave output with exit
\* code 0 and no final block "Error:", every block after the first 4 that is
\* not empty has a tex_frmt line and no tex_dims line when it lacks the marker
\* "Ext: dds", and otherwise no tex_frmt line and a tex_dims line if and only
\* if its width or height is odd.
C28_DumpOutputClassified ==
    \A t \in Ba2TasksParsed("-dump") :
        LET a == input.targets[t.k] IN
        ~ends_with_error(a.stdout) =>
            /\ ~t.exc
            /\ \A i \in RemainingBlocks(a) :
                  LET block == a.stdout[i].text IN
                  IF HasMarker(block)
                  THEN /\ ~YieldsFormat(t, a, block)
                       /\ YieldsDimensions(t, a, block) <=> OddDimensions(block)
                  ELSE YieldsFormat(t, a, block) /\ ~YieldsDimensions(t, a, block)

\* the text with its letters in upper case
InUpperCase(s) == [i \in DOMAIN s |-> IF s[i] \in 97..122 THEN s[i] - 32 ELSE s[i]]

\* the archive with the tool's output in another letter case
Recased(a, upper) ==
    LET recase(s) == IF upper THEN InUpperCase(s) ELSE str_lower(s) IN
    [a EXCEPT !.stdout =
        [i \in DOMAIN a.stdout |->
            [a.stdout[i] EXCEPT !.text =
                IF Recognized(a.header, DX10)
                THEN [n \in DOMAIN a.stdout[i].text |-> recase(a.stdout[i].text[n])]
                ELSE recase(a.stdout[i].text)]]]

\* the categories a result contributes to
CategoriesOf(r) == IF r.exc THEN {} ELSE { c \in DOMAIN r.val : r.val[c] # <<>> }

\* C29: the categories an archive contributes to are those it contributes to
\* when the tool's output is given in upper or in lower case instead, with
\* -list and with -dump.
C29_CategoriesIgnoreCase ==
    \A t \in Ba2TasksParsed("-list") \cup Ba2TasksParsed("-dump") :
        \A upper \in BOOLEAN :
            CategoriesOf(Ba2ToolResult(Recased(input.targets[t.k], upper)))
                = CategoriesOf([exc |-> t.exc, val |-> t.val])

(***************************************************************************)
(* Properties: one category per loose file                                 *)
(***************************************************************************)
\* the category the extension (and the name) of a file gives it; no file has
\* two of them
ByExtension(f) ==
    CASE f.ext = "txt" /\ f.doc_name -> "relocation"
      [] f.ext = "dds" -> "queue"
      [] f.ext \in {"tga", "png"} /\ ~f.bodyslide -> "tex_frmt"
      [] f.ext \in {"mp3", "m4a"} -> "snd_frmt"
      [] OTHER -> "none"

\* the category of file i of directory d: that of its extension, else the
\* script extender's if it is the first such file to match that test, else
\* previs if it is the first such file to match that one
CategoryOf(d) ==
    LET open == { i \in DOMAIN d.files : ByExtension(d.files[i]) = "none" }
        xse == IF d.wf THEN 0 ELSE First({ i \in open : d.files[i].xse_script })
        previs == First({ i \in open \ {xse} : d.files[i].ext = "uvd" \/ d.files[i].oc_nif })
    IN [i \in DOMAIN d.files |->
          IF i \notin open THEN ByExtension(d.files[i])
          ELSE IF i = xse THEN "xse_file"
          ELSE IF i = previs THEN "previs"
          ELSE "none"]

\* the files of d, in the order of the loop, whose category is in cats
FilesOf(d, category, cats) ==
    SelectSeq([i \in DOMAIN d.files |-> i], LAMBDA i : category[i] \in cats)

\* the line of file i of directory d, which is of category cat
LineOf(d, i, cat) ==
    Add(cat, IF cat \in {"tex_frmt", "snd_frmt"} THEN <<d.rel, d.files[i].name>>
             ELSE <<d.root_main>>)

\* the lines of the files of d, one for each file of a category with lines
LinesOf(d, category) ==
    LET files == FilesOf(d, category, {"tex_frmt", "snd_frmt", "xse_file", "previs"})
    IN [n \in DOMAIN files |-> LineOf(d, files[n], category[files[n]])]

\* the directory tasks whose loop over the files has run
DirectoryTasksPastFiles ==
    { t \in DirectoryTasks : t.pc = "file_tasks" \/ (t.pc = "done" /\ ~t.exc) }

\* C30: the loop over the files of a directory gives each file one category
\* at most: relocation, the queue of texture headers, tex_frmt, snd_frmt by
\* its extension, else xse_file, else previs; xse_file and previs are given to
\* the first file that reaches their test only, and a file after it is still
\* given any other category. A relocation task is made exactly for the files
\* of category relocation, the queue holds exactly the .dds files, and the
\* lines added are the lines of the other files, one each, in the registry.
C30_OneCategoryPerFile ==
    \A t \in DirectoryTasksPastFiles :
        LET d == input.targets[t.k]
            fl == file_loop(d)
            category == CategoryOf(d)
            relocations == FilesOf(d, category, {"relocation"})
            queue == FilesOf(d, category, {"queue"})
            lines == LinesOf(d, category)
        IN /\ fl.file_tasks = relocations
           /\ fl.dds_files = queue
           /\ fl.adds = lines
           /\ { c.n : c \in Children(t.k, {"file"}) } = Range(relocations)
           /\ { c.n : c \in Children(t.k, {"dds"}) } \subseteq Range(queue)
           /\ Children(t.k, {"batch"}) # {} <=> queue # <<>>
           /\ Range(lines) \subseteq contributed
           /\ \A a \in contributed :
                 (a.cat \in {"tex_frmt", "snd_frmt"} /\ a.text[1] = d.rel)
                     => a \in Range(lines)

\* the task of a directory has ended in which a file that matches the tests
\* of the script extender and of previs got the xse_file line, the next such
\* file the previs line, a sound file that matches the script extender's test
\* its snd_frmt line, and files after both detections their tex_frmt lines
C30_Witness ==
    \E t \in DirectoryTasksPastFiles :
        LET d == input.targets[t.k]
            category == CategoryOf(d)
            both(i) == d.files[i].xse_script /\ d.files[i].oc_nif
        IN /\ t.pc = "done"
           /\ \E i, j, m, n \in DOMAIN d.files :
                /\ i < j /\ j < m /\ m < n
                /\ both(i) /\ category[i] = "xse_file"
                /\ both(j) /\ category[j] = "previs"
                /\ d.files[m].xse_script /\ category[m] = "snd_frmt"
                /\ category[n] = "tex_frmt"
                /\ LineOf(d, m, "snd_frmt") \in contributed
                /\ LineOf(d, n, "tex_frmt") \in contributed
           /\ \E i \in DOMAIN d.files : d.files[i].ext = "uvd" /\ category[i] = "none"
           /\ \E i \in DOMAIN d.files : d.files[i].bodyslide /\ category[i] = "none"
           /\ {Add("xse_file", <<d.root_main>>), Add("previs", <<d.root_main>>)}
                 \subseteq contributed
           /\ FilesOf(d, category, {"queue"}) # <<>>

(***************************************************************************)
(* Properties: the targets of a scan                                       *)
(***************************************************************************)
\* the kind of task a scan makes for each of its targets
TargetTaskKind ==
    CASE input.op = "archived" -> "ba2"
      [] input.op = "log" -> "log"
      [] OTHER -> "dir"

\* the tasks made for the targets of class k, how many there are and how
\* many of them have ended
TargetTasks(k) == { t \in Tasks : t.k = k /\ t.kind = TargetTaskKind }
Dispatched(k) == NumTasks(TargetTasks(k))
Consumed(k) == NumTasks({ t \in TargetTasks(k) : t.pc = "done" })

\* how many targets class k stands for: a log file that is left out of the
\* enumeration is no target
TargetsOf(k) ==
    IF input.op = "log" /\ ~IsValidLog(input.targets[k]) THEN 0 ELSE input.targets[k].mult

\* C31: the targets are there before a task is made (the walk has been made
\* when an archive or directory task exists), they are never changed, no
\* target ever has more than one task, a task that has ended is never run
\* again, and when the scan has returned every target has had exactly one
\* task, which has ended.
C31_EachTargetConsumedOnce ==
    /\ [](\A k \in DOMAIN input.targets :
            /\ Dispatched(k) <= TargetsOf(k)
            /\ (Dispatched(k) > 0 /\ input.op # "log") => walked
            /\ Scanned => (Dispatched(k) = TargetsOf(k) /\ Consumed(k) = TargetsOf(k)))
    /\ [][/\ input' = input
          /\ \A k \in DOMAIN input.targets :
                Dispatched(k)' >= Dispatched(k) /\ Consumed(k)' >= Consumed(k)]_vars

\* a loose-file scan over more directories than a batch holds has returned,
\* every directory with one task that has ended
C31_Witness ==
    /\ Scanned /\ input.op = "unpacked" /\ wave = 2
    /\ NumTargets(input.targets) > batch_size
    /\ \A k \in DOMAIN input.targets : Consumed(k) = input.targets[k].mult

(***************************************************************************)
(* Properties: who writes to the registry                                  *)
(***************************************************************************)
\* C32: in the loose-file scan every line is added to issue_lists by a task
\* that holds the lock of the line's category while it adds it, and every
\* line in the registry was added that way; in the archive scan no task
\* writes to issue_lists: it stays empty until the scan itself merges the
\* results its tasks returned, after all of them have ended.
C32_RegistryWrittenUnderItsLock ==
    /\ input.op = "unpacked" =>
          /\ \A w \in lock_log : w.by = "task" /\ w.lock = w.cat
          /\ \A c \in DOMAIN issue_lists : \A x \in Range(issue_lists[c]) :
                Write(c, x, c, "task") \in lock_log
    /\ input.op = "archived" =>
          /\ \A w \in lock_log : w.by = "scan_mods_archived"
          /\ contributed = {}
          /\ scan_pc # "returned" => issue_lists = EmptyIssues(ArchivedOrder)
          /\ lock_log # {} => AllDone

\* a loose-file scan has returned whose registry has lines of six
\* categories, added by directory, relocation and texture tasks
C32_Witness ==
    /\ input.op = "unpacked" /\ Scanned
    /\ Cardinality({ w.cat : w \in lock_log }) >= 6
    /\ {"cleanup", "tex_dims", "animdata"} \subseteq { w.cat : w \in lock_log }
    /\ \A c \in DOMAIN issue_lists : \A x \in Range(issue_lists[c]) :
          Write(c, x, c, "task") \in lock_log

(***************************************************************************)
(* Properties: failures are logged                                         *)
(***************************************************************************)
\* task t has failed: it raised, or an exception in it was caught (the
\* processing of its archive failed, its move failed, its texture file could
\* not be read)
Failed(t) ==
    /\ t.pc = "done"
    /\ \/ t.exc
       \/ t.kind = "ba2" /\ ProcessingFails(input.targets[t.k])
       \/ MoveFailed(t)
       \/ t.kind = "dds" /\ input.targets[t.k].files[t.n].dds.read = "OSError"

\* the messages logged about task t or about what it works on
MessagesAbout(t) ==
    { l \in logged :
        \/ Len(l.about) = 4 /\ SubSeq(l.about, 2, 4) = <<t.kind, t.k, t.n>>
        \/ /\ t.kind = "ba2" /\ Len(l.about) = 2
           /\ l.about[2] = input.targets[t.k].filename
        \/ /\ t.kind = "dds" /\ Len(l.about) = 3
           /\ SubSeq(l.about, 2, 3) =
                 <<input.targets[t.k].rel, input.targets[t.k].files[t.n].name>> }

FailuresLogged(S) == \A t \in S : Failed(t) => MessagesAbout(t) # {}

\* C33: when a scan has returned, a message has been logged about every task
\* of an archive, a directory, a relocation or a texture header that has
\* failed.
C33_EveryFailureLogged ==
    Scanned => FailuresLogged({ t \in Tasks : t.kind # "log" })

(***************************************************************************)
(* Properties: which log files are scanned                                 *)
(***************************************************************************)
\* the name has the log extension, as the platform compares file names
HasLogExtension(name) ==
    IF input.os_name = "nt" THEN EndsIgnoringCase(name, dot_log)
    ELSE Len(name) >= 4 /\ SubSeq(name, Len(name) - 3, Len(name)) = dot_log

\* the entry is to be scanned: log extension, no "crash-" in its name and no
\* exclusion fragment of the settings in its path, letters compared without
\* regard to case
ToBeScanned(f) ==
    /\ HasLogExtension(f.file)
    /\ ~ContainsIgnoringCase(f.file, crash_)
    /\ \A n \in DOMAIN input.exclude_log_files :
          ~ContainsIgnoringCase(folder_path \o <<92>> \o f.file, input.exclude_log_files[n])

LogTasksOf(k) == { t \in Tasks : t.kind = "log" /\ t.k = k }

\* C34: in a log scan a file of the folder has a task, is read and takes a
\* log-read slot only if it has the log extension, its name does not contain
\* "crash-" and its path contains no exclusion fragment (letters compared
\* without regard to case); every such file has its task, and when the scan
\* has returned each has been read; the log-read slots in use are those of
\* the tasks reading.
C34_ExactlyTheValidLogsScanned ==
    input.op = "log" =>
        /\ \A k \in DOMAIN input.targets :
              LET f == input.targets[k] IN
              /\ ~ToBeScanned(f) => LogTasksOf(k) = {}
              /\ (ToBeScanned(f) /\ scan_pc # "start") =>
                    NumTasks(LogTasksOf(k)) = f.mult
              /\ (ToBeScanned(f) /\ scan_pc = "returned") =>
                    \A t \in LogTasksOf(k) : t.pc = "done"
        /\ MAX_CONCURRENT_LOG_READS - semaphore.log_read =
              NumTasks({ t \in Tasks : t.kind = "log" /\ t.pc = "read" })

C34_Witness ==
    /\ input.op = "log" /\ scan_pc = "returned"
    /\ input.os_name = "nt" /\ input.exclude_log_files # <<>>
    /\ \E k, j \in DOMAIN input.targets :
          /\ input.targets[k].name = "excluded" /\ LogTasksOf(k) = {}
          /\ ToBeScanned(input.targets[j]) /\ LogTasksOf(j) # {}

(***************************************************************************)
(* Properties: an unset mods path leaves the disk alone                    *)
(***************************************************************************)
\* C36: in a loose-file scan whose mods path is unset no folder is made
\* below the backup folder and nothing is moved, with TEST_MODE on or off.
C36_UnsetPathLeavesDiskUnchanged ==
    (input.op = "unpacked" /\ input.mod_path = "unset") =>
        backup_dirs = {} /\ relocated = {}

(***************************************************************************)
(* Properties: the order of the log blocks                                 *)
(***************************************************************************)
\* piece a of the report is of the block (or the warning) of log file k
PieceOfLog(a, k) ==
    /\ ret[a].kind \in {"log_path", "log_error", "log_unreadable"}
    /\ ret[a].text[1] = input.targets[k].path

\* log file j ended before log file i
EndedBefore(j, i) ==
    \E a, b \in DOMAIN finish_order :
        a < b /\ finish_order[a] = j /\ finish_order[b] = i

\* C39: in the report of a log scan the pieces of a file enumerated earlier
\* come before those of a file enumerated later, in whatever order the read
\* tasks have ended.
C39_BlocksInEnumerationOrder ==
    (input.op = "log" /\ scan_pc = "returned") =>
        \A i, j \in DOMAIN input.targets :
            i < j => \A a, b \in DOMAIN ret :
                        (PieceOfLog(a, i) /\ PieceOfLog(b, j)) => a < b

C39_Witness ==
    /\ input.op = "log" /\ scan_pc = "returned"
    /\ \E i, j \in DOMAIN input.targets :
          /\ i < j /\ EndedBefore(j, i)
          /\ \E a, b \in DOMAIN ret :
                /\ PieceOfLog(a, i) /\ ret[a].kind = "log_error"
                /\ PieceOfLog(b, j) /\ ret[b].kind = "log_error"

(***************************************************************************)
(* Properties: the synchronous wrappers                                    *)
(***************************************************************************)
\* C40: a synchronous wrapper that has returned has returned the report of
\* its scan, and the scan has returned by then, with or without an event
\* loop running in the caller.
C40_WrapperReturnsTheReport ==
    (input.caller # "await" /\ wrapper # "pending") =>
        (scan_pc = "returned" /\ wrapper = "result")

(***************************************************************************)
(* Properties: two scans of one instance                                   *)
(***************************************************************************)
\* how many tasks of the bag p are inside limiter l or wait to enter it
RECURSIVE CountTasks(_, _)
CountTasks(p, S) ==
    IF S = {} THEN 0
    ELSE LET t == CHOOSE u \in S : TRUE IN p[t] + CountTasks(p, S \ {t})

HoldingIn(p, l) == CountTasks(p, { t \in BagToSet(p) : l \in t.held })
WaitingIn(p, l) ==
    CountTasks(p, { t \in BagToSet(p) : t.pc = "acquire" /\ l \in LimitersOf(t.kind) })

\* C37: with two scans of one instance running at once, the tasks of both
\* scans that are inside a limiter are together never more than 4 tool
\* calls, 10 relocations, 20 log reads and 50 texture-header reads, and the
\* free slots of each semaphore are what the two scans together leave.
C37_TwoScansShareTheLimiters ==
    \A l \in Limiters :
        /\ HoldingIn(pool, l) + HoldingIn(other.pool, l) <= Ceiling(l)
        /\ semaphore[l] = Ceiling(l) - HoldingIn(pool, l) - HoldingIn(other.pool, l)

\* both scans have tasks inside the limiter, it is full and a task waits
SharedAndFull(l) ==
    /\ HoldingIn(pool, l) > 0 /\ HoldingIn(other.pool, l) > 0
    /\ HoldingIn(pool, l) + HoldingIn(other.pool, l) = Ceiling(l)
    /\ WaitingIn(pool, l) + WaitingIn(other.pool, l) > 0

C37_Witness == SharedAndFull("dds_read")

(***************************************************************************)
(* Properties: the module-level functions and the methods                  *)
(***************************************************************************)
\* the tasks of the bag p, each with the number of times it was made
TasksMade(p) ==
    LET ids == { <<t.kind, t.k, t.n>> : t \in BagToSet(p) } IN
    [id \in ids |->
        CountTasks(p, { t \in BagToSet(p) : <<t.kind, t.k, t.n>> = id })]

BothReturned == other.scan_pc = "returned" /\ scan_pc = "returned"

\* C38: the method and the module-level function, run on the same settings,
\* the same files and the same outcomes of the tool, have made the same
\* tasks and returned the same report.
C38_FunctionsEquivalentToMethods ==
    BothReturned =>
        /\ TasksMade(pool) = TasksMade(other.pool)
        /\ ret = other.ret


(***************************************************************************)
(* Properties: termination                                                 *)
(***************************************************************************)
\* C35: with the event loop running a step whenever one can be run, every
\* scan returns, and when it has returned every task it has made has ended:
\* no task waits for a slot or a lock for ever.
C35_EveryScanReturns == <>[](scan_pc = "returned" /\ AllDone)

\* a scan with more log reads than slots has returned
C35_Witness ==
    /\ scan_pc = "returned" /\ AllDone
    /\ input.op = "log"
    /\ NumTasks(Tasks) > MAX_CONCURRENT_LOG_READS

====
